---------------------------- MODULE Spec2Model ----------------------------
(***************************************************************************)
(* A model of the media upload microservice: the upload orchestrator       *)
(* (UploadService), the metadata store it calls (DatabaseService), the     *)
(* storage backend (the provider StorageProviderService selects from the   *)
(* configuration: local disk unless a scenario says otherwise),            *)
(* the validator (ValidationService), the image processor                  *)
(* (ImageProcessingService) and the bulk-delete and folder routes.         *)
(*                                                                         *)
(* Every async method is a coroutine: one action per resumption, i.e. per  *)
(* `await` that completes.  The value of a process's pc names the call it  *)
(* is suspended on; the code that runs synchronously between two awaits    *)
(* is one atomic action, as it is on JavaScript's single thread.           *)
(*                                                                         *)
(* Strings are sequences of tokens: a file name "photo.jpeg" is            *)
(* <<"photo", ".", "jpeg">>, a folder path "/a/b" is                       *)
(* <<"/", "a", "/", "b">>.  An optional value is <<>> (absent) or <<v>>.   *)
(***************************************************************************)
EXTENDS Integers, Sequences, FiniteSets, TLC

(***************************************************************************)
(* Bounds of the model.                                                    *)
(***************************************************************************)
\* longest batch handed to uploadFiles by the first upload slot
MaxBatchLen == 2
\* longest id list handed to the bulk-delete route
MaxBulkLen == 3
\* number of File records in the store when the delete scenarios start
NStoredFiles == 3
\* folder requests (create / delete / update / upload) started in a folder scenario
MaxFolderOps == 2

(***************************************************************************)
(* Program constants.                                                      *)
(***************************************************************************)
\* CONFIG.MAX_FILE_SIZE (bytes)
MAX_FILE_SIZE == 10485760
\* isValidFilename: longest accepted file name
MAX_FILENAME_LENGTH == 255

\* CONFIG.ALLOWED_TYPES, process.env.ALLOWED_TYPES split at its commas; the
\* environment sets it to image/jpeg,image/png,image/gif
ALLOWED_TYPES == {"image/jpeg", "image/png", "image/gif"}

\* (mutant) processImage guards with FORMATS_TO_RESIZE
FORMATS_TO_RESIZE == {"jpeg", "png", "webp", "tiff", "gif"}

\* the formats processImage derives variants for
FORMATS_TO_PROCESS == {"jpeg", "png", "webp", "tiff", "svg", "gif", "avif"}

FORMATS_TO_OPTIMIZE == {"jpeg", "png", "webp", "tiff", "avif"}

(***************************************************************************)
(* Strings as token sequences.                                             *)
(***************************************************************************)
\* number of characters of a token; "LONG" stands for a run of 256 letters,
\* "L255" for a run of 255 letters, "CTRL" for one control character
\* (U+0000..U+001F), "DEL" for the character U+007F
TokLen(t) ==
    CASE t = "LONG" -> 256
      [] t = "L255" -> 255
      [] t \in {".", "/", "<", ">", ":", "|", "?", "*", "\"", "\\", "CTRL", "DEL"} -> 1
      [] t \in {"con", "CoN", "nul", "aux", "prn", "doc", "pdf", "png", "txt", "jpg", "gif"} -> 3
      [] t \in {"com0", "com1", "lpt9", "jpeg", "JPEG", "docs", "pics"} -> 4
      [] OTHER -> 5

RECURSIVE StrLen(_)
StrLen(s) == IF s = <<>> THEN 0 ELSE TokLen(Head(s)) + StrLen(Tail(s))

\* String.prototype.toLowerCase on a token
LowerTok(t) ==
    CASE t = "CoN" -> "con"
      [] t = "JPEG" -> "jpeg"
      [] OTHER -> t

\* index of the last "." token of s, 0 when there is none
LastDot(s) ==
    LET dots == {i \in 1..Len(s) : s[i] = "."}
    IN  IF dots = {} THEN 0 ELSE CHOOSE i \in dots : \A j \in dots : j <= i

\* path.extname: from the last "." to the end; empty when there is no "."
\* or the only "." starts the name
ExtName(s) ==
    LET i == LastDot(s)
    IN  IF i <= 1 THEN <<>> ELSE SubSeq(s, i, Len(s))

\* the last segment of a path: what follows its last "/" (trailing "/"
\* tokens are dropped first)
RECURSIVE LastSegment(_)
LastSegment(s) ==
    IF s = <<>> THEN <<>>
    ELSE IF s[Len(s)] = "/" THEN LastSegment(SubSeq(s, 1, Len(s) - 1))
    ELSE LET slashes == {i \in 1..Len(s) : s[i] = "/"}
         IN  IF slashes = {} THEN s
             ELSE SubSeq(s, (CHOOSE i \in slashes : \A j \in slashes : j <= i) + 1, Len(s))

\* path.basename(name, ext): the last segment of the name, without a
\* trailing ext
BaseName(s, ext) ==
    LET seg == LastSegment(s) IN
    IF /\ ext # <<>>
       /\ Len(seg) > Len(ext)
       /\ SubSeq(seg, Len(seg) - Len(ext) + 1, Len(seg)) = ext
    THEN SubSeq(seg, 1, Len(seg) - Len(ext))
    ELSE seg

\* mime-types' extension(type); "false" is what the template literal prints
\* for a MIME type the table does not know
MimeExtension(mime) ==
    CASE mime = "image/jpeg" -> "jpeg"
      [] mime = "image/png" -> "png"
      [] mime = "image/gif" -> "gif"
      [] mime = "application/pdf" -> "pdf"
      [] mime = "text/plain" -> "txt"
      [] OTHER -> "false"

\* mime.startsWith('image/')
IsImageMime(mime) ==
    mime \in {"image/jpeg", "image/png", "image/gif", "image/bmp", "image/webp",
              "image/tiff", "image/svg+xml", "image/avif"}

(***************************************************************************)
(* UploadService.isValidFilename                                           *)
(***************************************************************************)
\* /[<>:"/\\|?*\u0000-\u001F]/
filenameReservedRegex(s) ==
    \E i \in 1..Len(s) : s[i] \in {"<", ">", ":", "\"", "/", "\\", "|", "?", "*", "CTRL"}

\* (mutant) the expression without its i flag
windowsReservedNameRegexCaseSensitive(s) ==
    /\ Len(s) = 1
    /\ s[1] \in {"con", "prn", "aux", "nul", "com0", "com1", "lpt9"}

\* /^(con|prn|aux|nul|com\d|lpt\d)$/i
windowsReservedNameRegex(s) ==
    /\ Len(s) = 1
    /\ LowerTok(s[1]) \in {"con", "prn", "aux", "nul", "com0", "com1", "lpt9"}

isValidFilename(filename) ==
    IF filename = <<>> \/ StrLen(filename) > MAX_FILENAME_LENGTH THEN FALSE
    ELSE IF filenameReservedRegex(filename) \/ windowsReservedNameRegex(filename) THEN FALSE
    ELSE IF filename = <<".">> \/ filename = <<".", ".">> THEN FALSE
    ELSE TRUE

(***************************************************************************)
(* ValidationService.validateFile: <<>> when the file is accepted, else    *)
(* <<message>> naming the violated constraint.                             *)
(*                                                                         *)
(* A raw file (Express.Multer.File) is                                     *)
(*   [originalname, mimetype, size, width, height, readable]               *)
(* where width/height/readable are what sharp reports for the bytes, and   *)
(* the options are [maxFileSize, allowedTypes, allowedExtensions,          *)
(* maxWidth, maxHeight]; 0 is an absent number, <<>> an absent list.       *)
(***************************************************************************)
\* validateImage: <<>> or <<message>>; a sharp failure is logged, not raised
validateImage(file, opts) ==
    IF opts.maxWidth = 0 /\ opts.maxHeight = 0 THEN <<>>
    ELSE IF ~file.readable THEN <<>>
    ELSE IF opts.maxWidth # 0 /\ file.width # 0 /\ file.width > opts.maxWidth
         THEN <<"width exceeds maximum">>
    ELSE IF opts.maxHeight # 0 /\ file.height # 0 /\ file.height > opts.maxHeight
         THEN <<"height exceeds maximum">>
    ELSE <<>>

\* file.originalname.split('.').pop()?.toLowerCase()
FileExtension(name) ==
    IF name = <<>> THEN <<>>
    ELSE IF name[Len(name)] = "." THEN <<>>
    ELSE <<LowerTok(name[Len(name)])>>

\* (mutant) the MIME type is checked before the size
validateFileTypeFirst(file, opts) ==
    IF file.mimetype \notin opts.allowedTypes THEN <<"type not allowed">>
    ELSE IF file.size > opts.maxFileSize THEN <<"size exceeds maximum">>
    ELSE IF /\ opts.allowedExtensions # <<>>
            /\ \/ FileExtension(file.originalname) = <<>>
               \/ FileExtension(file.originalname)[1] \notin opts.allowedExtensions[1]
         THEN <<"extension not allowed">>
    ELSE IF IsImageMime(file.mimetype) THEN validateImage(file, opts)
    ELSE <<>>

validateFile(file, opts) ==
    IF file.size > opts.maxFileSize THEN <<"size exceeds maximum">>
    ELSE IF file.mimetype \notin opts.allowedTypes THEN <<"type not allowed">>
    ELSE IF /\ opts.allowedExtensions # <<>>
            /\ \/ FileExtension(file.originalname) = <<>>
               \/ FileExtension(file.originalname)[1] \notin opts.allowedExtensions[1]
         THEN <<"extension not allowed">>
    ELSE IF IsImageMime(file.mimetype) THEN validateImage(file, opts)
    ELSE <<>>


(***************************************************************************)
(* State.                                                                  *)
(***************************************************************************)
VARIABLES
    files,          \* metadata store: the set of File records
    folders,        \* metadata store: the set of Folder records
    backend,        \* storage backend: the set of stored artifact paths
    tmpDirs,        \* temporary working directories that exist on disk
    fresh,          \* next unused file id, folder id, uuid and mkdtemp suffix
    up,             \* uploadFiles calls, one per upload slot
    del,            \* deleteFile calls, one per delete task
    bulk,           \* the bulk-delete request
    fop,            \* the folder request (createFolder / deleteFolder / updateFile) in flight
    hist,           \* history: folder ids deleted so far, number of folder requests started
    config,         \* CONFIG: the settings read from the environment when the process starts
    storage         \* the StorageProviderService of the upload service

vars == <<files, folders, backend, tmpDirs, fresh, up, del, bulk, fop, hist, config, storage>>

\* the upload slots; the second one runs short batches beside the first
UploadSlots == {1, 2}

(***************************************************************************)
(* Configuration (CONFIG, read from the environment when the process       *)
(* starts) and the construction of StorageProviderService.                 *)
(***************************************************************************)
\* values of the STORAGE_PROVIDER environment variable: unset, the three
\* names createProvider knows, and a name it does not know
StorageProviderSettings == {<<>>, <<"local">>, <<"aws-s3">>, <<"cloudinary">>, <<"s3">>}

\* the environment of the process: STORAGE_PROVIDER and GENERATE_THUMBNAILS are
\* unset (<<>>) or set to a string; of a credential only whether it is set to
\* a non-empty string matters
Environments ==
    [STORAGE_PROVIDER : StorageProviderSettings,
     AWS_S3_BUCKET : BOOLEAN, AWS_ACCESS_KEY_ID : BOOLEAN, AWS_SECRET_ACCESS_KEY : BOOLEAN,
     CLOUDINARY_CLOUD_NAME : BOOLEAN, CLOUDINARY_API_KEY : BOOLEAN,
     CLOUDINARY_API_SECRET : BOOLEAN,
     GENERATE_THUMBNAILS : {<<>>, <<"false">>}]

\* CONFIG: STORAGE_PROVIDER is process.env.STORAGE_PROVIDER || 'local',
\* GENERATE_THUMBNAILS is process.env.GENERATE_THUMBNAILS !== 'false'
Config(env) ==
    [env EXCEPT !.STORAGE_PROVIDER = IF @ = <<>> THEN "local" ELSE @[1],
                !.GENERATE_THUMBNAILS = (@ # <<"false">>)]

\* the environment sets none of these variables
LocalConfig ==
    Config([STORAGE_PROVIDER |-> <<>>,
            AWS_S3_BUCKET |-> FALSE, AWS_ACCESS_KEY_ID |-> FALSE,
            AWS_SECRET_ACCESS_KEY |-> FALSE,
            CLOUDINARY_CLOUD_NAME |-> FALSE, CLOUDINARY_API_KEY |-> FALSE,
            CLOUDINARY_API_SECRET |-> FALSE,
            GENERATE_THUMBNAILS |-> <<>>])

\* (mutant) incomplete credentials fall back to the local provider
createProviderFallback(cfg) ==
    CASE cfg.STORAGE_PROVIDER = "aws-s3" ->
            IF ~cfg.AWS_S3_BUCKET \/ ~cfg.AWS_ACCESS_KEY_ID \/ ~cfg.AWS_SECRET_ACCESS_KEY
            THEN [provider |-> "local", err |-> <<>>]
            ELSE [provider |-> "aws-s3", err |-> <<>>]
      [] cfg.STORAGE_PROVIDER = "cloudinary" ->
            IF ~cfg.CLOUDINARY_CLOUD_NAME \/ ~cfg.CLOUDINARY_API_KEY
                  \/ ~cfg.CLOUDINARY_API_SECRET
            THEN [provider |-> "local", err |-> <<>>]
            ELSE [provider |-> "cloudinary", err |-> <<>>]
      [] OTHER -> [provider |-> "local", err |-> <<>>]

\* createProvider: the name of the provider it constructs, or ("none") the
\* error it throws
createProvider(cfg) ==
    CASE cfg.STORAGE_PROVIDER = "aws-s3" ->
            IF ~cfg.AWS_S3_BUCKET \/ ~cfg.AWS_ACCESS_KEY_ID \/ ~cfg.AWS_SECRET_ACCESS_KEY
            THEN [provider |-> "none", err |-> <<"AWS S3 configuration is incomplete">>]
            ELSE [provider |-> "aws-s3", err |-> <<>>]
      [] cfg.STORAGE_PROVIDER = "cloudinary" ->
            IF ~cfg.CLOUDINARY_CLOUD_NAME \/ ~cfg.CLOUDINARY_API_KEY
                  \/ ~cfg.CLOUDINARY_API_SECRET
            THEN [provider |-> "none", err |-> <<"Cloudinary configuration is incomplete">>]
            ELSE [provider |-> "cloudinary", err |-> <<>>]
      [] OTHER -> [provider |-> "local", err |-> <<>>]

\* no service has been constructed
NoStorage == [provider |-> "none", err |-> <<>>, calls |-> {}]

\* new StorageProviderService(): this.provider = this.createProvider(); calls
\* is history (the provider each checkFileSize / getSignedUrl call reached
\* and how it settled)
NewStorageProviderService(cfg) ==
    LET made == createProvider(cfg)
    IN  [provider |-> made.provider, err |-> made.err, calls |-> {}]


(***************************************************************************)
(* Inputs.                                                                 *)
(***************************************************************************)
RawFile(name, mime, size) ==
    [originalname |-> name, mimetype |-> mime, size |-> size,
     width |-> 300, height |-> 200, readable |-> TRUE]

\* an accepted image, a document (accepted only when the caller's allow-list
\* names its type), an oversized image, an image with a reserved device name
RawImage == RawFile(<<"photo", ".", "jpeg">>, "image/jpeg", 2048)

RawDocument == RawFile(<<"doc", ".", "pdf">>, "application/pdf", 1024)

RawOversized == RawFile(<<"photo", ".", "png">>, "image/png", MAX_FILE_SIZE + 1)

RawReservedName == RawFile(<<"con">>, "image/jpeg", 2048)

RawFiles == {RawImage, RawDocument, RawOversized, RawReservedName}

\* validateFile's defaults: { maxFileSize = CONFIG.MAX_FILE_SIZE,
\* allowedTypes = CONFIG.ALLOWED_TYPES, allowedExtensions, maxWidth, maxHeight }
DefaultValidationOptions ==
    [maxFileSize |-> MAX_FILE_SIZE, allowedTypes |-> ALLOWED_TYPES,
     allowedExtensions |-> <<>>, maxWidth |-> 0, maxHeight |-> 0]

ValidationOptions ==
    {DefaultValidationOptions,
     [DefaultValidationOptions EXCEPT !.allowedTypes = ALLOWED_TYPES \cup {"application/pdf"}]}

\* all sequences over S of length at most n
SeqUpTo(S, n) == UNION {[1..k -> S] : k \in 0..n}

\* the requests an upload slot is handed: any batch for the first slot, one
\* document or one image under an allow-list that names both types for the
\* second
Batches(b) == IF b = 1 THEN SeqUpTo(RawFiles, MaxBatchLen) ELSE {<<RawDocument>>, <<RawImage>>}

BatchOptions(b) == IF b = 1 THEN ValidationOptions ELSE ValidationOptions \ {DefaultValidationOptions}

(***************************************************************************)
(* Storage backends: where each provider stores the artifact of a file     *)
(* and the url it gives it.                                                *)
(***************************************************************************)
\* LocalStorageProvider.getFilePath:
\* path.join(LOCAL_STORAGE_PATH, file.folderPath || '', hash + ext)
getFilePath(file) == [folderPath |-> file.folderPath, hash |-> file.hash, ext |-> file.ext]

\* `${file.hash}` inside a path: the hash as generateFileHash spells it
HashString(hash) == hash.basename \o <<"_", ToString(hash.uuid)>>

\* s.replace(/^\//, ''): the first character is removed when it is a slash
StripLeadingSlash(s) == IF s # <<>> /\ s[1] = "/" THEN Tail(s) ELSE s

\* S3StorageProvider.getS3Key:
\* `${folderPath || ''}/${hash}${ext}`.replace(/^\//, '')
getS3Key(file) ==
    [Key |-> StripLeadingSlash(file.folderPath \o <<"/">> \o HashString(file.hash) \o file.ext)]

\* CloudinaryStorageProvider.getPublicId:
\* `${folderPath || ''}/${hash}`.replace(/^\//, '')
getPublicId(file) ==
    [public_id |-> StripLeadingSlash(file.folderPath \o <<"/">> \o HashString(file.hash))]

\* provider.delete of StorageProviderService: the artifact the selected
\* provider addresses
StorageKey(provider, file) ==
    CASE provider = "local" -> getFilePath(file)
      [] provider = "aws-s3" -> getS3Key(file)
      [] provider = "cloudinary" -> getPublicId(file)

\* CloudinaryStorageProvider.upload passes public_id = getPublicId(file) and
\* folder = folderPath.replace(/^\//, '') || undefined.  Where the asset
\* lands is the service's answer (result.public_id): without a folder
\* option it is public_id; with one it is public_id on an account with
\* dynamic folders and `${folder}/${public_id}` on one with fixed folders
CloudinaryUpload(file) ==
    LET folder == StripLeadingSlash(file.folderPath)
    IN  IF folder = <<>> THEN {getPublicId(file)}
        ELSE {getPublicId(file),
              [public_id |-> folder \o <<"/">> \o getPublicId(file).public_id]}

\* provider.upload of StorageProviderService: the artifacts the selected
\* provider may write
UploadLocations(provider, file) ==
    IF provider = "cloudinary" THEN CloudinaryUpload(file) ELSE {StorageKey(provider, file)}

\* LocalStorageProvider.upload: url = `/files/${folderPath}/${hash}${ext}`
FileUrl(file) == <<"/files", file.folderPath, file.hash, file.ext>>

\* file.url as the selected provider's upload sets it
StorageUrl(provider, file) ==
    CASE provider = "local" -> FileUrl(file)
      [] provider = "aws-s3" -> <<"https://s3", getS3Key(file).Key>>
      [] provider = "cloudinary" -> <<"https://cloudinary", getPublicId(file).public_id>>

(***************************************************************************)
(* ImageProcessingService.processImage.  sharp is the environment: it      *)
(* either fails or re-encodes the primary artifact to optSize bytes.       *)
(* The result is <<>> on a hard failure, else <<partial entity>>.          *)
(***************************************************************************)
\* file.ext.replace('.', '')
Format(ext) == IF Len(ext) = 2 /\ ext[1] = "." THEN ext[2] ELSE ""

\* CONFIG.RESPONSIVE_BREAKPOINTS
RESPONSIVE_BREAKPOINTS == <<480, 768, 1024, 1920>>

\* generateThumbnail's default size
THUMBNAIL_SIZE == 150

\* the processingOptions of a request: { responsive?, breakpoints? }; {} when
\* the caller gives none
NoProcessingOptions == [responsive |-> <<>>, breakpoints |-> <<>>]

\* the messages of sharp's errors
SharpErrors == {"resize failed", "encode failed"}

\* what sharp makes of the calls of one processImage: thumbnail, the 150 x 150
\* resize succeeds; resized, the widths whose resize succeeds; optimized, the
\* re-encoding of the primary artifact succeeds, to optSize bytes
SharpFails == [thumbnail |-> FALSE, resized |-> {}, optimized |-> FALSE, optSize |-> 0]

SharpOutcomes ==
    {SharpFails,
     [thumbnail |-> TRUE, resized |-> {480, 768, 1024, 1920}, optimized |-> TRUE, optSize |-> 512],
     [thumbnail |-> TRUE, resized |-> {480, 768, 1024, 1920}, optimized |-> TRUE, optSize |-> 4096]}

Min(a, b) == IF a < b THEN a ELSE b

\* resizeImage: sharp(file.filepath).resize({ width, height, fit,
\* withoutEnlargement: true }).toBuffer(); the info of the output, which sharp
\* does not make larger than the source (height 0: no height is asked for)
resizeImage(source, width, height) ==
    LET w == Min(width, source.width)
    IN  [width |-> w,
         height |-> IF height = 0 THEN (source.height * w) \div source.width
                    ELSE Min(height, source.height)]

\* generateThumbnail: resizeImage to size x size, fit 'cover'
generateThumbnail(source) == resizeImage(source, THUMBNAIL_SIZE, THUMBNAIL_SIZE)

RECURSIVE generateResponsiveImagesNoCatch(_, _, _)
RECURSIVE generateResponsiveImages(_, _, _)

\* (mutant) the resize is not wrapped in try/catch: the first failure ends
\* the loop and is thrown
generateResponsiveImagesNoCatch(source, breakpoints, sharp) ==
    IF breakpoints = <<>>
    THEN [attempted |-> <<>>, warned |-> <<>>, responsive |-> {}, raised |-> FALSE]
    ELSE LET breakpoint == Head(breakpoints)
             ok == breakpoint \in sharp.resized
             rest == IF ok
                     THEN generateResponsiveImagesNoCatch(source, Tail(breakpoints), sharp)
                     ELSE [attempted |-> <<>>, warned |-> <<>>, responsive |-> {},
                           raised |-> TRUE]
         IN  [attempted |-> <<breakpoint>> \o rest.attempted,
              warned |-> rest.warned,
              responsive |->
                  (IF ok
                   THEN {[key |-> "w" \o ToString(breakpoint),
                          info |-> resizeImage(source, breakpoint, 0)]}
                   ELSE {}) \cup rest.responsive,
              raised |-> rest.raised]

\* generateResponsiveImages: the breakpoints in list order, each resize in its
\* own try/catch.  responsive is the returned map; the rest is history:
\* attempted, the widths resizeImage was called with, in call order; warned,
\* the widths whose failure was caught and logged; raised, the call threw
generateResponsiveImages(source, breakpoints, sharp) ==
    IF breakpoints = <<>>
    THEN [attempted |-> <<>>, warned |-> <<>>, responsive |-> {}, raised |-> FALSE]
    ELSE LET breakpoint == Head(breakpoints)
             ok == breakpoint \in sharp.resized
             rest == generateResponsiveImages(source, Tail(breakpoints), sharp)
         IN  [attempted |-> <<breakpoint>> \o rest.attempted,
              warned |-> (IF ok THEN <<>> ELSE <<breakpoint>>) \o rest.warned,
              responsive |->
                  (IF ok
                   THEN {[key |-> "w" \o ToString(breakpoint),
                          info |-> resizeImage(source, breakpoint, 0)]}
                   ELSE {}) \cup rest.responsive,
              raised |-> rest.raised]

\* a descriptor of result.formats: name and hash are the file's, prefixed
\* with the key
FormatDescriptor(key, file, info) ==
    [key |-> key, name |-> <<key, "_">> \o file.name,
     hash |-> [file.hash EXCEPT !.basename = <<key, "_">> \o @],
     ext |-> file.ext, mime |-> file.mime, width |-> info.width, height |-> info.height]

\* (mutant) the size of the re-encoded image is taken whatever it is
ReducedSizeAlways(file, optimizedSize) == <<optimizedSize>>

\* if (optimized.info.size < file.size) result.size = optimized.info.size
ReducedSize(file, optimizedSize) ==
    IF optimizedSize < file.size THEN <<optimizedSize>> ELSE <<>>

\* processImage(file, options): source is the image at file.filepath.  The
\* result is the thrown error (err), or the partial entity { formats?, size? }
\* that Object.assign copies into the file entity.  The rest is history:
\* failedAt, the call whose error the catch wrapped; responsive, what
\* generateResponsiveImages did, when it was called; optimized, the byte count
\* optimizeImage returned, when it was called and returned
processImage(file, source, options, sharp) ==
    LET format == Format(file.ext)
        unprocessed == [err |-> <<>>, formats |-> <<>>, size |-> <<>>,
                        failedAt |-> "none", responsive |-> <<>>, optimized |-> <<>>]
        thumbnail == IF config.GENERATE_THUMBNAILS
                     THEN {FormatDescriptor("thumbnail", file, generateThumbnail(source))}
                     ELSE {}
        breakpoints == IF options.breakpoints # <<>> THEN options.breakpoints[1]
                       ELSE RESPONSIVE_BREAKPOINTS
        responsive == IF options.responsive # <<FALSE>>
                      THEN <<generateResponsiveImages(source, breakpoints, sharp)>>
                      ELSE <<>>
        images == IF responsive = <<>> THEN {} ELSE responsive[1].responsive
    IN  IF ~IsImageMime(file.mime) THEN unprocessed
        ELSE IF format \notin FORMATS_TO_PROCESS THEN unprocessed
        ELSE IF config.GENERATE_THUMBNAILS /\ ~sharp.thumbnail
        THEN [unprocessed EXCEPT !.err = <<"Image processing failed: resize failed">>,
                                 !.failedAt = "generateThumbnail"]
        ELSE IF responsive # <<>> /\ responsive[1].raised
        THEN [unprocessed EXCEPT !.err = <<"Image processing failed: resize failed">>,
                                 !.failedAt = "generateResponsiveImages",
                                 !.responsive = responsive]
        ELSE IF format \in FORMATS_TO_OPTIMIZE /\ ~sharp.optimized
        THEN [unprocessed EXCEPT !.err = <<"Image processing failed: encode failed">>,
                                 !.failedAt = "optimizeImage",
                                 !.responsive = responsive]
        ELSE [err |-> <<>>,
              formats |-> <<thumbnail \cup {FormatDescriptor(i.key, file, i.info) : i \in images}>>,
              size |-> IF format \in FORMATS_TO_OPTIMIZE
                       THEN ReducedSize(file, sharp.optSize) ELSE <<>>,
              failedAt |-> "none",
              responsive |-> responsive,
              optimized |-> IF format \in FORMATS_TO_OPTIMIZE THEN <<sharp.optSize>> ELSE <<>>]

(***************************************************************************)
(* UploadService.uploadFiles                                               *)
(***************************************************************************)
\* the fileInfo argument: { name?, folder? }; {} when the caller gives none
NoFileInfo == [name |-> <<>>, folder |-> <<>>]

\* lookup is history: what became of getFolderPath's folder lookup for the
\* file in hand ("none": no lookup was made); so is processed: what
\* processImage made of the file in hand
IdleUpload ==
    [pc |-> "idle", files |-> <<>>, info |-> NoFileInfo, folder |-> <<>>,
     vopts |-> DefaultValidationOptions, popts |-> NoProcessingOptions,
     idx |-> 0, entity |-> <<>>, err |-> <<>>, tmp |-> 0, result |-> <<>>,
     out |-> "none", cleanup |-> "none", lookup |-> "none", processed |-> <<>>, log |-> {}]

\* history of a call: stage `stage` of the file at position pos started / ended ok / failed
Ev(pos, stage, what) == <<pos, stage, what>>

\* the for loop's next iteration: validateFile of the file at position pos is
\* awaited, or the loop is over and `return uploadedFiles` enters finally
UploadLoop(u, pos) ==
    IF pos <= Len(u.files)
    THEN [u EXCEPT !.idx = pos, !.pc = "validate", !.entity = <<>>, !.lookup = "none",
                   !.processed = <<>>,
                   !.log = @ \cup {Ev(pos, "validate", "start")}]
    ELSE [u EXCEPT !.pc = "remove"]

\* (mutant) the try/catch sits inside the loop: the error of one file is
\* logged and the loop goes on with the next file
UploadCatchContinue(b, u, error) ==
    /\ up' = [up EXCEPT ![b] = UploadLoop(u, u.idx + 1)]
    /\ UNCHANGED <<files, backend>>

\* (mutant) the catch block compensates: it deletes the records and the
\* artifacts of the files the batch had already persisted
UploadCatchRollback(b, u, error) ==
    LET mine == {f \in files : \E i \in 1..Len(u.result) : f.id = u.result[i]} IN
    /\ up' = [up EXCEPT ![b] = [u EXCEPT !.err = <<error>>, !.pc = "remove"]]
    /\ files' = files \ mine
    /\ backend' = backend \ {StorageKey(storage.provider, f) : f \in mine}

\* (mutant) a file that fails validation is validated again until it passes
UploadCatchRevalidate(b, u, error) ==
    /\ up' = [up EXCEPT ![b] =
                 IF Ev(u.idx, "validate", "fail") \in u.log
                 THEN UploadLoop(u, u.idx)
                 ELSE [u EXCEPT !.err = <<error>>, !.pc = "remove"]]
    /\ UNCHANGED <<files, backend>>

\* catch (error) { logger.error(...); throw error } finally { await fse.remove(tmp)... }
\* u is the call's state at the throw
UploadCatch(b, u, error) ==
    /\ up' = [up EXCEPT ![b] = [u EXCEPT !.err = <<error>>, !.pc = "remove"]]
    /\ UNCHANGED <<files, backend>>

\* the arguments of one call: uploadFiles(files, fileInfo, { folder, validationOptions })
\* options.processingOptions is absent unless a scenario sets it
UploadRequest(fs, fi, fo, vo) ==
    [files |-> fs, info |-> fi, folder |-> fo, vopts |-> vo, popts |-> NoProcessingOptions]

\* uploadFiles is called with one of the given requests:
\* createTmpWorkingDirectory is awaited
CallUploadFiles(b, Requests) ==
    /\ up[b].pc = "idle"
    /\ \E r \in Requests :
         up' = [up EXCEPT ![b] = [IdleUpload EXCEPT !.pc = "mkdtemp", !.files = r.files,
                                                    !.info = r.info, !.vopts = r.vopts,
                                                    !.folder = r.folder, !.popts = r.popts]]
    /\ UNCHANGED <<files, folders, backend, tmpDirs, fresh, del, bulk, fop, hist, config, storage>>

\* a call of an upload slot arrives, without fileInfo
StartUpload(b, FolderOptions) ==
    CallUploadFiles(b, {UploadRequest(fs, NoFileInfo, fo, vo) :
                          fs \in Batches(b), fo \in FolderOptions, vo \in BatchOptions(b)})

\* (mutant) the working directory has a fixed name and is made with
\* ensureDir: every call works in the same directory
MkdtempDoneFixedName(b) ==
    /\ up[b].pc = "mkdtemp"
    /\ \/ /\ tmpDirs' = tmpDirs \cup {1}
          /\ UNCHANGED fresh
          /\ up' = [up EXCEPT ![b] = UploadLoop([up[b] EXCEPT !.tmp = 1], 1)]
       \/ /\ up' = [up EXCEPT ![b] = [@ EXCEPT !.pc = "done", !.out = "thrown",
                                               !.err = <<"mkdtemp failed">>]]
          /\ UNCHANGED <<tmpDirs, fresh>>
    /\ UNCHANGED <<files, folders, backend, del, bulk, fop, hist, config, storage>>

\* fse.mkdtemp resolves with a fresh directory, or rejects (outside the try)
MkdtempDone(b) ==
    /\ up[b].pc = "mkdtemp"
    /\ \/ /\ tmpDirs' = tmpDirs \cup {fresh.tmp}
          /\ fresh' = [fresh EXCEPT !.tmp = @ + 1]
          /\ up' = [up EXCEPT ![b] = UploadLoop([up[b] EXCEPT !.tmp = fresh.tmp], 1)]
       \/ /\ up' = [up EXCEPT ![b] = [@ EXCEPT !.pc = "done", !.out = "thrown",
                                               !.err = <<"mkdtemp failed">>]]
          /\ UNCHANGED <<tmpDirs, fresh>>
    /\ UNCHANGED <<files, folders, backend, del, bulk, fop, hist, config, storage>>

\* (mutant) the hash is the base name alone
generateFileHashBasenameOnly(basename, uuid) == [basename |-> basename, uuid |-> 0]

\* generateFileHash: `${basename}_${uuidv4()}`; uuidv4 is taken to return a
\* value it has not returned before (fresh.uuid)
generateFileHash(basename, uuid) == [basename |-> basename, uuid |-> uuid]

\* formatFileInfo up to its first await: the filename check, the extension,
\* the hash, and the call of getFolderPath
FormatFileInfoEntity(file, fileInfo, folder, uuid) ==
    LET filename == file.originalname
        ext == IF ExtName(filename) # <<>> THEN ExtName(filename)
               ELSE <<".", MimeExtension(file.mimetype)>>
        \* (fileInfo.name || filename).normalize(): the tokens are in normal form
        usedName == IF fileInfo.name # <<>> THEN fileInfo.name ELSE filename
    IN  [name |-> usedName,
         folder |-> IF fileInfo.folder # <<>> THEN fileInfo.folder ELSE folder,
         folderPath |-> <<"/">>,
         hash |-> generateFileHash(BaseName(usedName, ext), uuid),
         ext |-> ext, mime |-> file.mimetype, size |-> file.size,
         width |-> 0, height |-> 0, url |-> <<>>,
         provider |-> config.STORAGE_PROVIDER, provider_metadata |-> <<>>,
         formats |-> <<>>]

\* (mutant) formatFileInfo without its filename check
ValidateDoneNoNameCheck(b) ==
    LET u == up[b]
        file == u.files[u.idx]
        verdict == validateFile(file, u.vopts)
        validated == [u EXCEPT !.log = @ \cup {Ev(u.idx, "validate", "ok"),
                                               Ev(u.idx, "build", "start")}]
    IN  /\ u.pc = "validate"
        /\ IF verdict # <<>>
           THEN /\ UploadCatch(b, [u EXCEPT !.log = @ \cup {Ev(u.idx, "validate", "fail")}],
                               verdict[1])
                /\ UNCHANGED fresh
           ELSE /\ up' = [up EXCEPT ![b] =
                            [validated EXCEPT !.pc = "getFolderPath",
                               !.entity = <<FormatFileInfoEntity(file, u.info, u.folder, fresh.uuid)>>]]
                /\ fresh' = [fresh EXCEPT !.uuid = @ + 1]
                /\ UNCHANGED <<files, backend>>
        /\ UNCHANGED <<folders, tmpDirs, del, bulk, fop, hist, config, storage>>

\* validateFile settles; on success formatFileInfo runs to getFolderPath
ValidateDone(b) ==
    LET u == up[b]
        file == u.files[u.idx]
        verdict == validateFile(file, u.vopts)
        validated == [u EXCEPT !.log = @ \cup {Ev(u.idx, "validate", "ok"),
                                               Ev(u.idx, "build", "start")}]
    IN  /\ u.pc = "validate"
        /\ IF verdict # <<>>
           THEN /\ UploadCatch(b, [u EXCEPT !.log = @ \cup {Ev(u.idx, "validate", "fail")}],
                               verdict[1])
                /\ UNCHANGED fresh
           ELSE IF ~isValidFilename(file.originalname)
           THEN /\ UploadCatch(b, [validated EXCEPT !.log = @ \cup {Ev(u.idx, "build", "fail")}],
                               "File name contains invalid characters")
                /\ UNCHANGED fresh
           ELSE /\ up' = [up EXCEPT ![b] =
                            [validated EXCEPT !.pc = "getFolderPath",
                               !.entity = <<FormatFileInfoEntity(file, u.info, u.folder, fresh.uuid)>>]]
                /\ fresh' = [fresh EXCEPT !.uuid = @ + 1]
                /\ UNCHANGED <<files, backend>>
        /\ UNCHANGED <<folders, tmpDirs, del, bulk, fop, hist, config, storage>>

\* (mutant) the path is rebuilt from the folder's name
getFolderPathByName(folderId, lookupFails) ==
    IF folderId = <<>> THEN <<"/">>
    ELSE IF lookupFails THEN <<"/">>
    ELSE LET found == {f \in folders : f.id = folderId[1]}
         IN  IF found = {} THEN <<"/">> ELSE <<"/", (CHOOSE f \in found : TRUE).name>>

\* getFolderPath: '/' without a folder id; else the folder's stored path,
\* or '/' when there is no such folder or the lookup throws
getFolderPath(folderId, lookupFails) ==
    IF folderId = <<>> THEN <<"/">>
    ELSE IF lookupFails THEN <<"/">>
    ELSE LET found == {f \in folders : f.id = folderId[1]}
         IN  IF found = {} THEN <<"/">> ELSE (CHOOSE f \in found : TRUE).path

\* the upload of the built entity is awaited (storageProvider.upload)
UploadToStorage(u) == [u EXCEPT !.pc = "upload", !.log = @ \cup {Ev(u.idx, "upload", "start")}]

\* (mutant) getFolderPath has no catch: a failed lookup is thrown
GetFolderPathDoneRethrow(b) ==
    LET u == up[b]
        folderId == u.entity[1].folder
    IN
    /\ u.pc = "getFolderPath"
    /\ \/ /\ folderId # <<>>
          /\ up' = [up EXCEPT ![b] =
                      [u EXCEPT !.lookup = "failed", !.err = <<"getFolder failed">>,
                                !.pc = "remove",
                                !.log = @ \cup {Ev(u.idx, "build", "fail")}]]
       \/ LET e == [u.entity[1] EXCEPT !.folderPath = getFolderPath(folderId, FALSE)]
              built == [u EXCEPT !.entity = <<e>>,
                                 !.lookup = CASE folderId = <<>> -> "none"
                                              [] \A f \in folders : f.id # folderId[1] -> "missing"
                                              [] OTHER -> "ok"]
          IN  up' = [up EXCEPT ![b] =
                       IF IsImageMime(e.mime)
                       THEN [built EXCEPT !.pc = "getMetadata"]
                       ELSE UploadToStorage([built EXCEPT !.log = @ \cup {Ev(u.idx, "build", "ok")}])]
    /\ UNCHANGED <<files, folders, backend, tmpDirs, fresh, del, bulk, fop, hist, config, storage>>

\* getFolderPath settles: the entity is complete; an image goes on to getMetadata
GetFolderPathDone(b) ==
    LET u == up[b] IN
    /\ u.pc = "getFolderPath"
    /\ \E lookupFails \in (IF u.entity[1].folder = <<>> THEN {FALSE} ELSE BOOLEAN) :
         LET folderId == u.entity[1].folder
             e == [u.entity[1] EXCEPT !.folderPath = getFolderPath(folderId, lookupFails)]
             built == [u EXCEPT !.entity = <<e>>,
                                !.lookup = CASE folderId = <<>> -> "none"
                                             [] lookupFails -> "failed"
                                             [] \A f \in folders : f.id # folderId[1] -> "missing"
                                             [] OTHER -> "ok"]
         IN  up' = [up EXCEPT ![b] =
                      IF IsImageMime(e.mime)
                      THEN [built EXCEPT !.pc = "getMetadata"]
                      ELSE UploadToStorage([built EXCEPT !.log = @ \cup {Ev(u.idx, "build", "ok")}])]
    /\ UNCHANGED <<files, folders, backend, tmpDirs, fresh, del, bulk, fop, hist, config, storage>>

\* (mutant) formatFileInfo has no catch around getMetadata: its error is thrown
GetMetadataDoneRethrow(b) ==
    LET u == up[b]
        file == u.files[u.idx]
    IN
    /\ u.pc = "getMetadata"
    /\ \E sharpFails \in BOOLEAN :
         IF sharpFails \/ ~file.readable
         THEN UploadCatch(b, [u EXCEPT !.log = @ \cup {Ev(u.idx, "build", "fail")}],
                          "Failed to extract image metadata")
         ELSE /\ up' = [up EXCEPT ![b] =
                          [u EXCEPT !.entity = <<[u.entity[1] EXCEPT !.width = file.width,
                                                                    !.height = file.height]>>,
                                    !.pc = "processImage",
                                    !.log = @ \cup {Ev(u.idx, "build", "ok"),
                                                    Ev(u.idx, "derive", "start")}]]
              /\ UNCHANGED <<files, backend>>
    /\ UNCHANGED <<folders, tmpDirs, fresh, del, bulk, fop, hist, config, storage>>

\* getMetadata settles: width and height, or (caught and logged) nothing;
\* then processImage is awaited
GetMetadataDone(b) ==
    LET u == up[b]
        file == u.files[u.idx]
    IN
    /\ u.pc = "getMetadata"
    /\ \E sharpFails \in BOOLEAN :
         LET e == IF sharpFails \/ ~file.readable THEN u.entity[1]
                  ELSE [u.entity[1] EXCEPT !.width = file.width, !.height = file.height]
         IN  up' = [up EXCEPT ![b] =
                      [u EXCEPT !.entity = <<e>>, !.pc = "processImage",
                                !.log = @ \cup {Ev(u.idx, "build", "ok"),
                                                Ev(u.idx, "derive", "start")}]]
    /\ UNCHANGED <<files, folders, backend, tmpDirs, fresh, del, bulk, fop, hist, config, storage>>

\* (mutant) uploadFiles catches the processing error and goes on with the
\* unprocessed entity
ProcessImageSettlesSwallowed(b, Outcomes) ==
    LET u == up[b] IN
    /\ u.pc = "processImage"
    /\ \E sharp \in Outcomes :
         LET res == processImage(u.entity[1], u.files[u.idx], u.popts, sharp)
             seen == [u EXCEPT !.processed = <<res>>]
         IN
         IF res.err # <<>>
         THEN /\ up' = [up EXCEPT ![b] =
                          UploadToStorage([seen EXCEPT !.log = @ \cup {Ev(u.idx, "derive", "fail")}])]
              /\ UNCHANGED <<files, backend>>
         ELSE /\ up' = [up EXCEPT ![b] =
                          UploadToStorage(
                              [seen EXCEPT !.entity =
                                               <<[u.entity[1] EXCEPT
                                                    !.formats = IF res.formats # <<>>
                                                                THEN res.formats ELSE @,
                                                    !.size = IF res.size # <<>>
                                                             THEN res.size[1] ELSE @]>>,
                                           !.log = @ \cup {Ev(u.idx, "derive", "ok")}])]
              /\ UNCHANGED <<files, backend>>
    /\ UNCHANGED <<folders, tmpDirs, fresh, del, bulk, fop, hist, config, storage>>

\* processImage settles, sharp having done one of the given things:
\* Object.assign(fileEntity, processedFile), or the processing error is thrown
ProcessImageSettles(b, Outcomes) ==
    LET u == up[b] IN
    /\ u.pc = "processImage"
    /\ \E sharp \in Outcomes :
         LET res == processImage(u.entity[1], u.files[u.idx], u.popts, sharp)
             seen == [u EXCEPT !.processed = <<res>>]
         IN
         IF res.err # <<>>
         THEN UploadCatch(b, [seen EXCEPT !.log = @ \cup {Ev(u.idx, "derive", "fail")}],
                          res.err[1])
         ELSE /\ up' = [up EXCEPT ![b] =
                          UploadToStorage(
                              [seen EXCEPT !.entity =
                                               <<[u.entity[1] EXCEPT
                                                    !.formats = IF res.formats # <<>>
                                                                THEN res.formats ELSE @,
                                                    !.size = IF res.size # <<>>
                                                             THEN res.size[1] ELSE @]>>,
                                           !.log = @ \cup {Ev(u.idx, "derive", "ok")}])]
              /\ UNCHANGED <<files, backend>>
    /\ UNCHANGED <<folders, tmpDirs, fresh, del, bulk, fop, hist, config, storage>>

ProcessImageDone(b) == ProcessImageSettles(b, SharpOutcomes)

\* (mutant) the backend's rejection is swallowed: the entity is saved
\* although nothing was stored
UploadDoneSwallowed(b) ==
    LET u == up[b] IN
    /\ u.pc = "upload"
    /\ \/ /\ backend' = backend \cup {StorageKey(storage.provider, u.entity[1])}
          /\ up' = [up EXCEPT ![b] =
                      [u EXCEPT !.pc = "saveFile",
                                !.entity = <<[u.entity[1] EXCEPT !.url = <<StorageUrl(storage.provider, u.entity[1])>>]>>,
                                !.log = @ \cup {Ev(u.idx, "upload", "ok"),
                                                Ev(u.idx, "persist", "start")}]]
       \/ /\ up' = [up EXCEPT ![b] =
                      [u EXCEPT !.pc = "saveFile",
                                !.log = @ \cup {Ev(u.idx, "upload", "fail"),
                                                Ev(u.idx, "persist", "start")}]]
          /\ UNCHANGED backend
    /\ UNCHANGED <<files, folders, tmpDirs, fresh, del, bulk, fop, hist, config, storage>>

\* (mutant) saveFile is called without await: the loop goes on to the next
\* file while the save is still in flight
UploadDoneNoAwait(b) ==
    LET u == up[b] IN
    /\ u.pc = "upload"
    /\ \/ /\ backend' = backend \cup {StorageKey(storage.provider, u.entity[1])}
          /\ up' = [up EXCEPT ![b] =
                      UploadLoop([u EXCEPT !.log = @ \cup {Ev(u.idx, "upload", "ok"),
                                                          Ev(u.idx, "persist", "start")}],
                                 u.idx + 1)]
          /\ UNCHANGED files
       \/ UploadCatch(b, [u EXCEPT !.log = @ \cup {Ev(u.idx, "upload", "fail")}],
                      "storage upload failed")
    /\ UNCHANGED <<folders, tmpDirs, fresh, del, bulk, fop, hist, config, storage>>

\* (mutant) a failed backend upload is tried once more before it is thrown
UploadDoneRetry(b) ==
    LET u == up[b] IN
    /\ u.pc = "upload"
    /\ \/ /\ \E artifact \in UploadLocations(storage.provider, u.entity[1]) :
               /\ backend' = backend \cup {artifact}
               /\ up' = [up EXCEPT ![b] =
                      [u EXCEPT !.pc = "saveFile",
                                !.entity = <<[u.entity[1] EXCEPT
                                                !.url = <<StorageUrl(storage.provider, u.entity[1])>>,
                                                !.provider_metadata = <<artifact>>]>>,
                                !.log = @ \cup {Ev(u.idx, "upload", "ok"),
                                                Ev(u.idx, "persist", "start")}]]
          /\ UNCHANGED files
       \/ IF Ev(u.idx, "upload", "fail") \in u.log
          THEN UploadCatch(b, u, "storage upload failed")
          ELSE /\ up' = [up EXCEPT ![b] = [u EXCEPT !.log = @ \cup {Ev(u.idx, "upload", "fail")}]]
               /\ UNCHANGED <<files, backend>>
    /\ UNCHANGED <<folders, tmpDirs, fresh, del, bulk, fop, hist, config, storage>>

\* storageProvider.upload settles: the artifact is stored, file.url and
\* file.provider_metadata (the place the provider reports) are set and
\* saveFile is awaited; or the backend error is thrown
UploadDone(b) ==
    LET u == up[b] IN
    /\ u.pc = "upload"
    /\ \/ /\ \E artifact \in UploadLocations(storage.provider, u.entity[1]) :
               /\ backend' = backend \cup {artifact}
               /\ up' = [up EXCEPT ![b] =
                      [u EXCEPT !.pc = "saveFile",
                                !.entity = <<[u.entity[1] EXCEPT
                                                !.url = <<StorageUrl(storage.provider, u.entity[1])>>,
                                                !.provider_metadata = <<artifact>>]>>,
                                !.log = @ \cup {Ev(u.idx, "upload", "ok"),
                                                Ev(u.idx, "persist", "start")}]]
          /\ UNCHANGED files
       \/ UploadCatch(b, [u EXCEPT !.log = @ \cup {Ev(u.idx, "upload", "fail")}],
                      "storage upload failed")
    /\ UNCHANGED <<folders, tmpDirs, fresh, del, bulk, fop, hist, config, storage>>

\* DatabaseService.saveFile: prisma.file.create of the entity's persisted
\* columns under a new id; origin is history (the call and position that wrote it)
FileRecord(entity, id, b, pos) ==
    [id |-> id, name |-> entity.name, folder |-> entity.folder,
     folderPath |-> entity.folderPath, hash |-> entity.hash, ext |-> entity.ext,
     mime |-> entity.mime, size |-> entity.size, url |-> entity.url,
     width |-> entity.width, height |-> entity.height,
     provider |-> entity.provider, provider_metadata |-> entity.provider_metadata,
     formats |-> entity.formats, origin |-> <<b, pos>>]

\* saveFile settles: the record is written, pushed to uploadedFiles and the
\* loop goes on; or the store's error is thrown
SaveFileDone(b) ==
    LET u == up[b] IN
    /\ u.pc = "saveFile"
    /\ \/ /\ files' = files \cup {FileRecord(u.entity[1], fresh.file, b, u.idx)}
          /\ fresh' = [fresh EXCEPT !.file = @ + 1]
          /\ up' = [up EXCEPT ![b] =
                      UploadLoop([u EXCEPT !.result = Append(@, fresh.file),
                                           !.log = @ \cup {Ev(u.idx, "persist", "ok")}],
                                 u.idx + 1)]
          /\ UNCHANGED backend
       \/ /\ UploadCatch(b, [u EXCEPT !.log = @ \cup {Ev(u.idx, "persist", "fail")}],
                         "saveFile failed")
          /\ UNCHANGED fresh
    /\ UNCHANGED <<folders, tmpDirs, del, bulk, fop, hist, config, storage>>

\* (mutant) the cleanup sits at the end of the try block instead of in
\* finally: a call that throws leaves without removing its directory
RemoveDoneOnlyOnReturn(b) ==
    LET u == up[b] IN
    /\ u.pc = "remove"
    /\ IF u.err = <<>>
       THEN \E removed \in BOOLEAN :
              /\ tmpDirs' = IF removed THEN tmpDirs \ {u.tmp} ELSE tmpDirs
              /\ up' = [up EXCEPT ![b] =
                           [u EXCEPT !.pc = "done", !.out = "returned",
                                     !.cleanup = IF removed THEN "removed" ELSE "failed"]]
       ELSE /\ up' = [up EXCEPT ![b] = [u EXCEPT !.pc = "done", !.out = "thrown"]]
            /\ UNCHANGED tmpDirs
    /\ UNCHANGED <<files, folders, backend, fresh, del, bulk, fop, hist, config, storage>>

\* finally: fse.remove(tmp) settles (a failure is logged and swallowed), and
\* the call returns uploadedFiles or rethrows the caught error; cleanup is
\* history (what became of the removal)
RemoveDone(b) ==
    LET u == up[b] IN
    /\ u.pc = "remove"
    /\ \E removed \in BOOLEAN :
         /\ tmpDirs' = IF removed THEN tmpDirs \ {u.tmp} ELSE tmpDirs
         /\ up' = [up EXCEPT ![b] =
                      [u EXCEPT !.pc = "done",
                                !.cleanup = IF removed THEN "removed" ELSE "failed",
                                !.out = IF u.err = <<>> THEN "returned" ELSE "thrown"]]
    /\ UNCHANGED <<files, folders, backend, fresh, del, bulk, fop, hist, config, storage>>

UploadStep(b) ==
    \/ MkdtempDone(b)
    \/ ValidateDone(b)
    \/ GetFolderPathDone(b)
    \/ GetMetadataDone(b)
    \/ ProcessImageDone(b)
    \/ UploadDone(b)
    \/ SaveFileDone(b)
    \/ RemoveDone(b)

(***************************************************************************)
(* UploadService.deleteFile, one coroutine per delete task.  Task 0 is the *)
(* call of the single-file delete route, tasks 1..n are the calls the      *)
(* bulk-delete route maps over its id list.                                *)
(***************************************************************************)
DeleteTasks == 0..MaxBulkLen

IdleDelete ==
    [pc |-> "idle", id |-> 0, file |-> <<>>, cause |-> "none", calls |-> <<>>]

\* the task's promise has settled
Settled(t) == del[t].pc \in {"fulfilled", "rejected"}

\* deleteFile(id) is called: database.getFile(id) is awaited
CallDeleteFile(id) == [IdleDelete EXCEPT !.pc = "getFile", !.id = id]

\* a throw out of deleteFile: the task's promise rejects
DeleteReject(task, cause) == [task EXCEPT !.pc = "rejected", !.cause = cause]

\* getFile settles: the store throws, or there is no record ('File not found'),
\* or the record is read and storageProvider.delete(file) is awaited
DeleteGetFileDone(t) ==
    LET d == del[t]
        found == {f \in files : f.id = d.id}
    IN
    /\ d.pc = "getFile"
    /\ \/ del' = [del EXCEPT ![t] = DeleteReject(d, "getFile failed")]
       \/ /\ found = {}
          /\ del' = [del EXCEPT ![t] = DeleteReject(d, "File not found")]
       \/ /\ found # {}
          /\ del' = [del EXCEPT ![t] =
                       [d EXCEPT !.pc = "storageDelete",
                                 !.file = <<CHOOSE f \in found : TRUE>>,
                                 !.calls = Append(@, "storage.delete")]]
    /\ UNCHANGED <<files, folders, backend, tmpDirs, fresh, up, bulk, fop, hist, config, storage>>

\* (mutant) the backend's rejection is swallowed: the record is deleted
\* although the artifact was not
DeleteStorageDoneSwallowed(t) ==
    LET d == del[t] IN
    /\ d.pc = "storageDelete"
    /\ del' = [del EXCEPT ![t] = [d EXCEPT !.pc = "dbDelete", !.calls = Append(@, "db.delete")]]
    /\ \/ backend' = backend \ {StorageKey(storage.provider, d.file[1])}
       \/ UNCHANGED backend
    /\ UNCHANGED <<files, folders, tmpDirs, fresh, up, bulk, fop, hist, config, storage>>

\* (mutant) the store delete sits in a finally block: the record is deleted
\* although the backend delete failed, and the backend error is rethrown
DeleteStorageDoneFinally(t) ==
    LET d == del[t] IN
    /\ d.pc = "storageDelete"
    /\ \/ /\ backend' = backend \ {StorageKey(storage.provider, d.file[1])}
          /\ del' = [del EXCEPT ![t] = [d EXCEPT !.pc = "dbDelete",
                                                 !.calls = Append(@, "db.delete")]]
          /\ UNCHANGED files
       \/ /\ del' = [del EXCEPT ![t] =
                       DeleteReject([d EXCEPT !.calls = Append(@, "db.delete")],
                                    "storage delete failed")]
          /\ files' = {f \in files : f.id # d.id}
          /\ UNCHANGED backend
    /\ UNCHANGED <<folders, tmpDirs, fresh, up, bulk, fop, hist, config, storage>>

\* storageProvider.delete settles: fse.remove removed the artifact (a path
\* that is already gone is no error) and database.deleteFile(id) is awaited;
\* or the backend error is logged and rethrown
DeleteStorageDone(t) ==
    LET d == del[t] IN
    /\ d.pc = "storageDelete"
    /\ \/ /\ backend' = backend \ {StorageKey(storage.provider, d.file[1])}
          /\ del' = [del EXCEPT ![t] = [d EXCEPT !.pc = "dbDelete",
                                                 !.calls = Append(@, "db.delete")]]
       \/ /\ del' = [del EXCEPT ![t] = DeleteReject(d, "storage delete failed")]
          /\ UNCHANGED backend
    /\ UNCHANGED <<files, folders, tmpDirs, fresh, up, bulk, fop, hist, config, storage>>

\* (mutant) the store delete is a deleteMany: a record that is already gone
\* is no error
DeleteDbDoneIdempotent(t) ==
    LET d == del[t]
        found == {f \in files : f.id = d.id}
    IN
    /\ d.pc = "dbDelete"
    /\ \/ /\ files' = files \ found
          /\ del' = [del EXCEPT ![t] = [d EXCEPT !.pc = "fulfilled"]]
       \/ /\ del' = [del EXCEPT ![t] = DeleteReject(d, "db delete failed")]
          /\ UNCHANGED files
    /\ UNCHANGED <<folders, backend, tmpDirs, fresh, up, bulk, fop, hist, config, storage>>

\* database.deleteFile settles: prisma.file.delete removed the record and
\* deleteFile returns true; or it throws, because there is no such record
\* any more or because the store fails
DeleteDbDone(t) ==
    LET d == del[t]
        found == {f \in files : f.id = d.id}
    IN
    /\ d.pc = "dbDelete"
    /\ \/ /\ found # {}
          /\ files' = files \ found
          /\ del' = [del EXCEPT ![t] = [d EXCEPT !.pc = "fulfilled"]]
       \/ /\ found = {}
          /\ del' = [del EXCEPT ![t] = DeleteReject(d, "Record to delete does not exist")]
          /\ UNCHANGED files
       \/ /\ del' = [del EXCEPT ![t] = DeleteReject(d, "db delete failed")]
          /\ UNCHANGED files
    /\ UNCHANGED <<folders, backend, tmpDirs, fresh, up, bulk, fop, hist, config, storage>>

DeleteStep(t) ==
    \/ DeleteGetFileDone(t)
    \/ DeleteStorageDone(t)
    \/ DeleteDbDone(t)

\* the single-file delete route, router.delete('/:id')
StartDelete(Ids) ==
    /\ del[0].pc = "idle"
    /\ \E id \in Ids : del' = [del EXCEPT ![0] = CallDeleteFile(id)]
    /\ UNCHANGED <<files, folders, backend, tmpDirs, fresh, up, bulk, fop, hist, config, storage>>

(***************************************************************************)
(* The bulk-delete route, router.delete('/')                               *)
(***************************************************************************)
IdleBulk ==
    [pc |-> "idle", ids |-> <<>>, status |-> 0, successful |-> 0, failed |-> 0, total |-> 0]

\* the tasks of the request in flight
BulkTasks == 1..Len(bulk.ids)

\* the id lists of a request.  The calls of one request are all started
\* together and interleave freely, so a list stands for all its
\* permutations: only the non-decreasing ones are enumerated
IdLists(Ids) ==
    {ids \in SeqUpTo(Ids, MaxBulkLen) : \A i \in 1..(Len(ids) - 1) : ids[i] <= ids[i + 1]}

\* the request arrives: an empty list is answered 400; else every
\* deleteFile(id) is called and Promise.allSettled is awaited
StartBulkDelete(Ids) ==
    /\ bulk.pc = "idle"
    /\ \E ids \in IdLists(Ids) :
         IF Len(ids) = 0
         THEN /\ bulk' = [IdleBulk EXCEPT !.pc = "responded", !.status = 400]
              /\ UNCHANGED del
         ELSE /\ bulk' = [IdleBulk EXCEPT !.pc = "allSettled", !.ids = ids]
              /\ del' = [t \in DeleteTasks |->
                           IF t \in 1..Len(ids) THEN CallDeleteFile(ids[t]) ELSE del[t]]
    /\ UNCHANGED <<files, folders, backend, tmpDirs, fresh, up, fop, hist, config, storage>>

\* (mutant) Promise.race: resolves as soon as one task has settled
AnySettled == \E t \in BulkTasks : Settled(t)

\* Promise.allSettled resolves once every task has settled
AllSettled == \A t \in BulkTasks : Settled(t)

\* (mutant) both filters test for 'fulfilled'
CountStatusFulfilled(s) == Cardinality({t \in BulkTasks : del[t].pc = "fulfilled"})

\* results.filter(r => r.status === s).length
CountStatus(s) == Cardinality({t \in BulkTasks : del[t].pc = s})

\* allSettled resolves: the counts are answered
BulkRespond ==
    /\ bulk.pc = "allSettled"
    /\ AllSettled
    /\ bulk' = [bulk EXCEPT !.pc = "responded", !.status = 200,
                            !.successful = CountStatus("fulfilled"),
                            !.failed = CountStatus("rejected"),
                            !.total = Len(bulk.ids)]
    /\ UNCHANGED <<files, folders, backend, tmpDirs, fresh, up, del, fop, hist, config, storage>>

(***************************************************************************)
(* Folder requests.  fop holds one coroutine per kind of request:          *)
(* "create" (createFolder), "delete" (deleteFolder), "update" (updateFile).*)
(* The store's calls made by these requests are taken to complete: a       *)
(* store outage is not part of the folder scenarios.                       *)
(***************************************************************************)
FolderOps == {"create", "delete", "update"}

IdleFolderOp ==
    [pc |-> "idle", id |-> 0, name |-> "", parent |-> <<>>, path |-> <<>>,
     updates |-> [name |-> <<>>, folder |-> <<>>],
     out |-> "none", err |-> "", pre |-> [files |-> {}, folders |-> {}]]

\* a request slot is free
Free(k) == fop[k].pc \in {"idle", "done"}

\* a request starts: counted in the history
CountOp == hist' = [hist EXCEPT !.ops = @ + 1]

FolderNames == {"docs", "pics"}

\* the folder and file ids a request may name
RequestIds == {1, 2}

\* ValidationService.validateFolderName: TRUE when the name is accepted
validateFolderName(name) ==
    /\ name # ""
    /\ TokLen(name) <= 100
    /\ name \notin {"<", ">", ":", "\"", "/", "\\", "|", "?", "*", "CTRL"}
    /\ LowerTok(name) \notin {"con", "prn", "aux", "nul", "com1", "lpt9"}

\* POST /folders -> createFolder(name, parent): with a parent id getFolder is
\* awaited first, else prisma.folder.create is
StartCreateFolder ==
    /\ Free("create")
    /\ hist.ops < MaxFolderOps
    /\ \E name \in FolderNames, parent \in {<<>>} \cup {<<i>> : i \in RequestIds} :
         /\ validateFolderName(name)
         /\ fop' = [fop EXCEPT !["create"] =
                      [IdleFolderOp EXCEPT !.pc = IF parent = <<>> THEN "create" ELSE "getFolder",
                                           !.name = name, !.parent = parent,
                                           !.path = <<"/", name>>]]
    /\ CountOp
    /\ UNCHANGED <<files, folders, backend, tmpDirs, fresh, up, del, bulk, config, storage>>

\* path = parentFolder ? `${parentFolder.path}/${name}` : `/${name}`
FolderPath(parentFolder, name) ==
    IF parentFolder = {} THEN <<"/", name>>
    ELSE (CHOOSE f \in parentFolder : TRUE).path \o <<"/", name>>

\* getFolder(parent) settles: the path is computed and the create is awaited
CreateGetFolderDone ==
    LET c == fop["create"] IN
    /\ c.pc = "getFolder"
    /\ fop' = [fop EXCEPT !["create"] =
                 [c EXCEPT !.pc = "create",
                           !.path = FolderPath({f \in folders : f.id = c.parent[1]}, c.name)]]
    /\ UNCHANGED <<files, folders, backend, tmpDirs, fresh, up, del, bulk, hist, config, storage>>

\* prisma.folder.create settles: the Folder record is written
CreateFolderDone ==
    LET c == fop["create"] IN
    /\ c.pc = "create"
    /\ folders' = folders \cup {[id |-> fresh.folder, name |-> c.name, path |-> c.path,
                                 parent |-> c.parent]}
    /\ fresh' = [fresh EXCEPT !.folder = @ + 1]
    /\ fop' = [fop EXCEPT !["create"] = [c EXCEPT !.pc = "done", !.out = "returned",
                                                  !.id = fresh.folder]]
    /\ UNCHANGED <<files, backend, tmpDirs, up, del, bulk, hist, config, storage>>

\* DELETE /folders/:id -> deleteFolder(id): prisma.file.count is awaited
StartDeleteFolder ==
    /\ Free("delete")
    /\ hist.ops < MaxFolderOps
    /\ \E id \in RequestIds :
         fop' = [fop EXCEPT !["delete"] =
                   [IdleFolderOp EXCEPT !.pc = "countFiles", !.id = id,
                                        !.pre = [files |-> files, folders |-> folders]]]
    /\ CountOp
    /\ UNCHANGED <<files, folders, backend, tmpDirs, fresh, up, del, bulk, config, storage>>

\* a throw out of a folder request
FolderOpThrow(k, message) ==
    fop' = [fop EXCEPT ![k] = [@ EXCEPT !.pc = "done", !.out = "thrown", !.err = message]]

\* prisma.file.count({ where: { folder: id } }) settles
DeleteCountFilesDone ==
    LET d == fop["delete"]
        filesCount == Cardinality({f \in files : f.folder = <<d.id>>})
    IN
    /\ d.pc = "countFiles"
    /\ IF filesCount > 0
       THEN FolderOpThrow("delete", "Cannot delete folder that contains files")
       ELSE fop' = [fop EXCEPT !["delete"] = [d EXCEPT !.pc = "countSubfolders"]]
    /\ UNCHANGED <<files, folders, backend, tmpDirs, fresh, up, del, bulk, hist, config, storage>>

\* (mutant) the subfolder count is not tested
DeleteCountSubfoldersDoneUnchecked ==
    /\ fop["delete"].pc = "countSubfolders"
    /\ fop' = [fop EXCEPT !["delete"] = [@ EXCEPT !.pc = "delete"]]
    /\ UNCHANGED <<files, folders, backend, tmpDirs, fresh, up, del, bulk, hist, config, storage>>

\* prisma.folder.count({ where: { parent: id } }) settles
DeleteCountSubfoldersDone ==
    LET d == fop["delete"]
        subFoldersCount == Cardinality({f \in folders : f.parent = <<d.id>>})
    IN
    /\ d.pc = "countSubfolders"
    /\ IF subFoldersCount > 0
       THEN FolderOpThrow("delete", "Cannot delete folder that contains subfolders")
       ELSE fop' = [fop EXCEPT !["delete"] = [d EXCEPT !.pc = "delete"]]
    /\ UNCHANGED <<files, folders, backend, tmpDirs, fresh, up, del, bulk, hist, config, storage>>

\* prisma.folder.delete({ where: { id } }) settles: the record is removed,
\* or there is no such record and prisma throws
DeleteFolderDone ==
    LET d == fop["delete"]
        found == {f \in folders : f.id = d.id}
    IN
    /\ d.pc = "delete"
    /\ IF found = {}
       THEN /\ FolderOpThrow("delete", "Record to delete does not exist")
            /\ UNCHANGED <<folders, hist>>
       ELSE /\ folders' = folders \ found
            /\ hist' = [hist EXCEPT !.deletedFolders = @ \cup {d.id}]
            /\ fop' = [fop EXCEPT !["delete"] = [d EXCEPT !.pc = "done", !.out = "returned"]]
    /\ UNCHANGED <<files, backend, tmpDirs, fresh, up, del, bulk, config, storage>>

\* ValidationService.validateFileInfo on the name: TRUE when it is accepted
\* (a string of at most 255 characters, or no name)
validateFileInfo(fileInfo) ==
    fileInfo.name = <<>> \/ StrLen(fileInfo.name) <= 255

\* PUT /files/:id -> validateFileInfo(updates), updateFile(id, updates):
\* getFile is awaited
CallUpdateFile(Ids, Updates) ==
    /\ Free("update")
    /\ hist.ops < MaxFolderOps
    /\ \E id \in Ids, updates \in Updates :
         /\ validateFileInfo(updates)
         /\ fop' = [fop EXCEPT !["update"] =
                      [IdleFolderOp EXCEPT !.pc = "getFile", !.id = id, !.updates = updates]]
    /\ CountOp
    /\ UNCHANGED <<files, folders, backend, tmpDirs, fresh, up, del, bulk, config, storage>>

\* the update of a folder scenario: file 1 is moved to a folder
StartUpdateFile ==
    CallUpdateFile({1}, {[name |-> <<>>, folder |-> <<i>>] : i \in RequestIds})

\* (mutant) the record that getFile returns is not tested
UpdateGetFileDoneUnchecked ==
    /\ fop["update"].pc = "getFile"
    /\ fop' = [fop EXCEPT !["update"] = [@ EXCEPT !.pc = "update"]]
    /\ UNCHANGED <<files, folders, backend, tmpDirs, fresh, up, del, bulk, hist, config, storage>>

\* getFile settles: 'File not found', or database.updateFile is awaited
UpdateGetFileDone ==
    LET u == fop["update"] IN
    /\ u.pc = "getFile"
    /\ IF {f \in files : f.id = u.id} = {}
       THEN FolderOpThrow("update", "File not found")
       ELSE fop' = [fop EXCEPT !["update"] = [u EXCEPT !.pc = "update"]]
    /\ UNCHANGED <<files, folders, backend, tmpDirs, fresh, up, del, bulk, hist, config, storage>>

\* (mutant) a move to another folder also rewrites the record's folderPath
UpdatedRecordMovesPath(f, updates) ==
    [f EXCEPT !.name = IF updates.name = <<>> THEN @ ELSE updates.name,
              !.folder = IF updates.folder = <<>> THEN @ ELSE updates.folder,
              !.folderPath = IF updates.folder = <<>> THEN @
                             ELSE getFolderPath(updates.folder, FALSE)]

\* DatabaseService.updateFile: prisma.file.update sets the given columns
\* (an undefined one is left alone)
UpdatedRecord(f, updates) ==
    [f EXCEPT !.name = IF updates.name = <<>> THEN @ ELSE updates.name,
              !.folder = IF updates.folder = <<>> THEN @ ELSE updates.folder]

\* prisma.file.update settles: the record is rewritten, or it is gone and
\* prisma throws
UpdateFileDone ==
    LET u == fop["update"]
        found == {f \in files : f.id = u.id}
    IN
    /\ u.pc = "update"
    /\ IF found = {}
       THEN /\ FolderOpThrow("update", "Record to update not found")
            /\ UNCHANGED files
       ELSE /\ files' = (files \ found) \cup {UpdatedRecord(f, u.updates) : f \in found}
            /\ fop' = [fop EXCEPT !["update"] = [u EXCEPT !.pc = "done", !.out = "returned"]]
    /\ UNCHANGED <<folders, backend, tmpDirs, fresh, up, del, bulk, hist, config, storage>>

FolderStep ==
    \/ CreateGetFolderDone
    \/ CreateFolderDone
    \/ DeleteCountFilesDone
    \/ DeleteCountSubfoldersDone
    \/ DeleteFolderDone
    \/ UpdateGetFileDone
    \/ UpdateFileDone

(***************************************************************************)
(* The upload scenario: two concurrent uploadFiles calls on an empty       *)
(* store, no folder id supplied.                                           *)
(***************************************************************************)
Init ==
    /\ config = LocalConfig
    /\ storage = NewStorageProviderService(LocalConfig)
    /\ files = {}
    /\ folders = {}
    /\ backend = {}
    /\ tmpDirs = {}
    /\ fresh = [file |-> 1, folder |-> 1, uuid |-> 1, tmp |-> 1]
    /\ up = [b \in UploadSlots |-> IdleUpload]
    /\ del = [t \in DeleteTasks |-> IdleDelete]
    /\ bulk = IdleBulk
    /\ fop = [k \in FolderOps |-> IdleFolderOp]
    /\ hist = [deletedFolders |-> {}, ops |-> 0]

Next ==
    \E b \in UploadSlots :
        \/ StartUpload(b, {<<>>})
        \/ UploadStep(b)

Spec == Init /\ [][Next]_vars

\* The termination scenario: one uploadFiles call of any batch of the
\* upload scenario, under the assumption that every awaited step settles:
\* a call that can resume does resume.  The call itself need not arrive.
NextLive ==
    \/ StartUpload(1, {<<>>})
    \/ UploadStep(1)

SpecLive == Init /\ [][NextLive]_vars /\ WF_vars(UploadStep(1))

(***************************************************************************)
(* The delete scenario: the store holds NStoredFiles images uploaded to    *)
(* the root folder; one bulk-delete request and one single-file delete     *)
(* request (for a stored file or for the unknown id) run concurrently.     *)
(***************************************************************************)
\* the record and the artifact a successful upload of RawImage leaves
StoredEntity(i) ==
    LET e == FormatFileInfoEntity(RawImage, NoFileInfo, <<>>, i)
    IN  [e EXCEPT !.url = <<FileUrl(e)>>, !.provider_metadata = <<getFilePath(e)>>,
                  !.width = RawImage.width, !.height = RawImage.height]

StoredFile(i) == FileRecord(StoredEntity(i), i, 0, i)

\* the ids a delete request may name: the stored files and one unknown id
DeleteIds == 1..(NStoredFiles + 1)

InitDelete ==
    /\ config = LocalConfig
    /\ storage = NewStorageProviderService(LocalConfig)
    /\ files = {StoredFile(i) : i \in 1..NStoredFiles}
    /\ folders = {}
    /\ backend = {getFilePath(StoredFile(i)) : i \in 1..NStoredFiles}
    /\ tmpDirs = {}
    /\ fresh = [file |-> NStoredFiles + 2, folder |-> 1, uuid |-> NStoredFiles + 1, tmp |-> 1]
    /\ up = [b \in UploadSlots |-> IdleUpload]
    /\ del = [t \in DeleteTasks |-> IdleDelete]
    /\ bulk = IdleBulk
    /\ fop = [k \in FolderOps |-> IdleFolderOp]
    /\ hist = [deletedFolders |-> {}, ops |-> 0]

NextDelete ==
    \/ StartBulkDelete(DeleteIds)
    \/ BulkRespond
    \/ StartDelete({1, NStoredFiles + 1})
    \/ \E t \in DeleteTasks : DeleteStep(t)

SpecDelete == InitDelete /\ [][NextDelete]_vars

(***************************************************************************)
(* The folder scenarios: the store holds the folders that                  *)
(* createFolder("docs") and createFolder("pics", 1) leave, and no file;    *)
(* then up to MaxFolderOps folder requests and one uploadFiles call of one *)
(* document into a folder.  SpecFolders interleaves the requests at every  *)
(* await; SpecFolderSeq serves one request at a time.                      *)
(***************************************************************************)
DocsFolder == [id |-> 1, name |-> "docs", path |-> FolderPath({}, "docs"), parent |-> <<>>]

PicsFolder ==
    [id |-> 2, name |-> "pics", path |-> FolderPath({DocsFolder}, "pics"), parent |-> <<1>>]

InitFolders ==
    /\ config = LocalConfig
    /\ storage = NewStorageProviderService(LocalConfig)
    /\ files = {}
    /\ folders = {DocsFolder, PicsFolder}
    /\ backend = {}
    /\ tmpDirs = {}
    /\ fresh = [file |-> 1, folder |-> 3, uuid |-> 1, tmp |-> 1]
    /\ up = [b \in UploadSlots |-> IdleUpload]
    /\ del = [t \in DeleteTasks |-> IdleDelete]
    /\ bulk = IdleBulk
    /\ fop = [k \in FolderOps |-> IdleFolderOp]
    /\ hist = [deletedFolders |-> {}, ops |-> 0]

\* the folder option of the upload: none, or the id of a folder
UploadFolders == {<<>>} \cup {<<i>> : i \in RequestIds}

\* no request is in flight
Quiescent ==
    /\ \A k \in FolderOps : Free(k)
    /\ \A b \in UploadSlots : up[b].pc \in {"idle", "done"}

StartFolderRequest ==
    \/ StartUpload(2, UploadFolders)
    \/ StartCreateFolder
    \/ StartDeleteFolder
    \/ StartUpdateFile

NextFolders ==
    \/ StartFolderRequest
    \/ UploadStep(2)
    \/ FolderStep

SpecFolders == InitFolders /\ [][NextFolders]_vars

NextFolderSeq ==
    \/ Quiescent /\ StartFolderRequest
    \/ UploadStep(2)
    \/ FolderStep

SpecFolderSeq == InitFolders /\ [][NextFolderSeq]_vars

(***************************************************************************)
(* The validation scenario: one uploadFiles call of one file on an empty   *)
(* store, the file and the validation options drawn from probes of every   *)
(* constraint of validateFile and of isValidFilename.                      *)
(***************************************************************************)
\* file names: accepted ones, then one per rule of isValidFilename
FileNames ==
    {<<"photo", ".", "jpeg">>, <<"L255">>, <<"con", ".", "txt">>, <<".", ".", ".">>,
     <<"photo", "DEL", "jpeg">>,
     <<>>, <<"LONG">>, <<"L255", "jpeg">>,
     <<"con">>, <<"CoN">>, <<"prn">>, <<"aux">>, <<"nul">>, <<"com0">>, <<"com1">>, <<"lpt9">>,
     <<".">>, <<".", ".">>}
        \cup {<<"photo", c, "jpeg">> :
                 c \in {"<", ">", ":", "\"", "/", "\\", "|", "?", "*", "CTRL"}}

NameProbes == {RawFile(n, "image/jpeg", 2048) : n \in FileNames}

\* files that violate none, one or several of size, MIME type, extension
\* and image dimensions (300 x 200, or unreadable by sharp)
ConstraintProbes ==
    {[originalname |-> n, mimetype |-> m, size |-> sz, width |-> 300, height |-> 200,
      readable |-> r] :
        n \in {<<"photo", ".", "JPEG">>, <<"photo", ".", "gif">>, <<"photo">>, <<"photo", ".">>},
        m \in {"image/jpeg", "image/bmp", "application/pdf"},
        sz \in {2048, MAX_FILE_SIZE, MAX_FILE_SIZE + 1},
        r \in BOOLEAN}

ProbeOptions ==
    {[maxFileSize |-> MAX_FILE_SIZE, allowedTypes |-> at, allowedExtensions |-> ae,
      maxWidth |-> mw, maxHeight |-> mh] :
        at \in {ALLOWED_TYPES, ALLOWED_TYPES \cup {"application/pdf"}},
        ae \in {<<>>, <<{"jpeg", "pdf"}>>, <<{}>>},
        mw \in {0, 100, 300},
        mh \in {0, 100, 200}}

ValidateRequests ==
    {UploadRequest(<<f>>, NoFileInfo, <<>>, DefaultValidationOptions) : f \in NameProbes}
        \cup {UploadRequest(<<f>>, NoFileInfo, <<>>, vo) : f \in ConstraintProbes, vo \in ProbeOptions}

NextValidate ==
    \/ CallUploadFiles(1, ValidateRequests)
    \/ UploadStep(1)

SpecValidate == Init /\ [][NextValidate]_vars

(***************************************************************************)
(* The single-file scenario: on the store of the delete scenario, one      *)
(* deleteFile call, updateFile calls (a new name, or a new folder id) and  *)
(* one uploadFiles call of one file with or without a fileInfo name run    *)
(* concurrently; each may name a stored file or the unknown id.            *)
(***************************************************************************)
\* names a caller supplies: a plain one, one with a reserved character, one
\* of 255 characters, one of 256 characters
SuppliedNames == {<<"notes">>, <<"notes", "/", "pics">>, <<"L255">>, <<"LONG">>}

\* the bodies of PUT /files/:id
SingleUpdates ==
    {[name |-> n, folder |-> <<>>] : n \in SuppliedNames}
        \cup {[name |-> <<>>, folder |-> <<1>>]}

\* the upload requests: one image, fileInfo without or with a name (the
\* route has validated fileInfo), or a batch of two images of the same name
SingleUploads ==
    {UploadRequest(<<RawImage, RawImage>>, NoFileInfo, <<>>, DefaultValidationOptions)} \cup
    {UploadRequest(<<RawImage>>, fi, <<>>, DefaultValidationOptions) :
        fi \in {r \in {[name |-> nm, folder |-> <<>>] : nm \in {<<>>} \cup SuppliedNames} :
                  validateFileInfo(r)}}

SingleIds == {1, NStoredFiles + 1}

NextSingle ==
    \/ StartDelete(SingleIds)
    \/ DeleteStep(0)
    \/ CallUpdateFile(SingleIds, SingleUpdates)
    \/ UpdateGetFileDone
    \/ UpdateFileDone
    \/ CallUploadFiles(2, SingleUploads)
    \/ UploadStep(2)

SpecSingle == InitDelete /\ [][NextSingle]_vars

(***************************************************************************)
(* The image-processing scenario: one uploadFiles call of one file on an   *)
(* empty store.  The file is drawn from probes of processImage's guards,   *)
(* the processing options from probes of its switches, thumbnails are      *)
(* configured on or off, and sharp may fail at any of its calls.           *)
(***************************************************************************)
\* an image of every kind processImage tells apart: optimizable formats, a
\* format that is processed but not optimized, an image format outside
\* FORMATS_TO_PROCESS, extensions that differ from a listed format by case
\* or spelling, a file that is no image, an image wider than every
\* breakpoint, an image sharp cannot read
ProcessProbes ==
    {RawImage,
     RawFile(<<"photo", ".", "png">>, "image/png", 2048),
     RawFile(<<"photo", ".", "gif">>, "image/gif", 2048),
     RawFile(<<"photo", ".", "bmp">>, "image/bmp", 2048),
     RawFile(<<"photo", ".", "JPEG">>, "image/jpeg", 2048),
     RawFile(<<"photo", ".", "jpg">>, "image/jpeg", 2048),
     RawFile(<<"photo", ".", "webp">>, "image/webp", 2048),
     RawFile(<<"photo", ".", "tiff">>, "image/tiff", 2048),
     RawFile(<<"photo", ".", "svg">>, "image/svg+xml", 2048),
     RawFile(<<"photo", ".", "avif">>, "image/avif", 2048),
     RawDocument,
     [RawImage EXCEPT !.originalname = <<"wide", ".", "jpeg">>, !.width = 2000, !.height = 1000],
     [RawImage EXCEPT !.readable = FALSE]}

\* processingOptions: none, responsive: false, two breakpoints below the
\* width of the probes, an empty breakpoint list
ProcessingOptions ==
    {NoProcessingOptions,
     [NoProcessingOptions EXCEPT !.responsive = <<FALSE>>],
     [NoProcessingOptions EXCEPT !.breakpoints = << <<100, 200>> >>],
     [NoProcessingOptions EXCEPT !.breakpoints = << <<>> >>]}

\* every type of the probes is allowed
ProcessValidationOptions ==
    [DefaultValidationOptions EXCEPT
        !.allowedTypes = ALLOWED_TYPES \cup {"image/bmp", "image/webp", "image/tiff",
                                             "image/svg+xml", "image/avif",
                                             "application/pdf"}]

ProcessRequests ==
    {[UploadRequest(<<f>>, NoFileInfo, <<>>, ProcessValidationOptions) EXCEPT !.popts = po] :
        f \in ProcessProbes, po \in ProcessingOptions}

\* sharp fails or succeeds at the thumbnail, at each breakpoint and at the
\* re-encoding, whose output is smaller than, as large as, or larger than
\* the 2048 bytes of the probes
AllSharpOutcomes ==
    [thumbnail : BOOLEAN,
     resized : SUBSET {480, 768, 1024, 1920} \cup SUBSET {100, 200},
     optimized : BOOLEAN,
     optSize : {512, 2048, 4096}]

InitProcess ==
    /\ config \in {Config([STORAGE_PROVIDER |-> <<>>,
                           AWS_S3_BUCKET |-> FALSE, AWS_ACCESS_KEY_ID |-> FALSE,
                           AWS_SECRET_ACCESS_KEY |-> FALSE,
                           CLOUDINARY_CLOUD_NAME |-> FALSE, CLOUDINARY_API_KEY |-> FALSE,
                           CLOUDINARY_API_SECRET |-> FALSE,
                           GENERATE_THUMBNAILS |-> t]) : t \in {<<>>, <<"false">>}}
    /\ storage = NewStorageProviderService(config)
    /\ files = {}
    /\ folders = {}
    /\ backend = {}
    /\ tmpDirs = {}
    /\ fresh = [file |-> 1, folder |-> 1, uuid |-> 1, tmp |-> 1]
    /\ up = [b \in UploadSlots |-> IdleUpload]
    /\ del = [t \in DeleteTasks |-> IdleDelete]
    /\ bulk = IdleBulk
    /\ fop = [k \in FolderOps |-> IdleFolderOp]
    /\ hist = [deletedFolders |-> {}, ops |-> 0]

NextProcess ==
    \/ CallUploadFiles(1, ProcessRequests)
    \/ MkdtempDone(1)
    \/ ValidateDone(1)
    \/ GetFolderPathDone(1)
    \/ GetMetadataDone(1)
    \/ ProcessImageSettles(1, AllSharpOutcomes)
    \/ UploadDone(1)
    \/ SaveFileDone(1)
    \/ RemoveDone(1)

SpecProcess == InitProcess /\ [][NextProcess]_vars

(***************************************************************************)
(* The storage scenario: the process starts under any environment; the     *)
(* upload service and with it the storage service is constructed; once it  *)
(* exists, one uploadFiles call of one image, one deleteFile call, and     *)
(* checkFileSize and getSignedUrl calls of the storage service run         *)
(* concurrently.                                                           *)
(***************************************************************************)
\* a storage service exists
ServiceReady == storage.provider # "none"

\* new UploadService(): this.storageProvider = new StorageProviderService();
\* when createProvider throws there is no service, and none is made later
ConstructUploadService ==
    /\ storage = NoStorage
    /\ storage' = NewStorageProviderService(config)
    /\ UNCHANGED <<files, folders, backend, tmpDirs, fresh, up, del, bulk, fop, hist, config>>

\* a call of the selected provider is history: the operation, the provider
\* that served it, how it settled
StorageCall(op, provider, out) == [op |-> op, provider |-> provider, out |-> out]

\* the files the storage service is asked about
StorageProbes ==
    {FormatFileInfoEntity(f, NoFileInfo, <<>>, 0) : f \in {RawImage, RawOversized}}

\* StorageProviderService.checkFileSize: every provider has it and throws
\* when file.size exceeds CONFIG.MAX_FILE_SIZE
StorageCheckFileSize ==
    /\ ServiceReady
    /\ \E file \in StorageProbes :
         storage' = [storage EXCEPT !.calls = @ \cup
                        {StorageCall("checkFileSize", storage.provider,
                                     IF file.size > MAX_FILE_SIZE THEN "thrown" ELSE "ok")}]
    /\ UNCHANGED <<files, folders, backend, tmpDirs, fresh, up, del, bulk, fop, hist, config>>

\* (mutant) a provider without signed urls hands the call to the S3 provider
StorageGetSignedUrlFallback ==
    /\ ServiceReady
    /\ storage' = [storage EXCEPT !.calls = @ \cup
                       {StorageCall("getSignedUrl", "aws-s3", "ok")}]
    /\ UNCHANGED <<files, folders, backend, tmpDirs, fresh, up, del, bulk, fop, hist, config>>

\* StorageProviderService.getSignedUrl: the S3 provider signs, or its client
\* throws; the service throws for a provider that has no getSignedUrl
StorageGetSignedUrl ==
    /\ ServiceReady
    /\ \E out \in (IF storage.provider = "aws-s3" THEN {"ok", "thrown"} ELSE {"thrown"}) :
         storage' = [storage EXCEPT !.calls = @ \cup
                        {StorageCall("getSignedUrl", storage.provider, out)}]
    /\ UNCHANGED <<files, folders, backend, tmpDirs, fresh, up, del, bulk, fop, hist, config>>

InitStorage ==
    /\ config \in {Config(e) : e \in {v \in Environments : v.GENERATE_THUMBNAILS = <<>>}}
    /\ storage = NoStorage
    /\ files = {}
    /\ folders = {}
    /\ backend = {}
    /\ tmpDirs = {}
    /\ fresh = [file |-> 1, folder |-> 1, uuid |-> 1, tmp |-> 1]
    /\ up = [b \in UploadSlots |-> IdleUpload]
    /\ del = [t \in DeleteTasks |-> IdleDelete]
    /\ bulk = IdleBulk
    /\ fop = [k \in FolderOps |-> IdleFolderOp]
    /\ hist = [deletedFolders |-> {}, ops |-> 0]

NextStorage ==
    \/ ConstructUploadService
    \/ ServiceReady /\ CallUploadFiles(1, {UploadRequest(<<RawImage>>, NoFileInfo, <<>>,
                                                         DefaultValidationOptions)})
    \/ UploadStep(1)
    \/ ServiceReady /\ StartDelete({1})
    \/ DeleteStep(0)
    \/ StorageCheckFileSize
    \/ StorageGetSignedUrl

SpecStorage == InitStorage /\ [][NextStorage]_vars

(***************************************************************************)
(* The addressing scenario: under each of the three backends, with its     *)
(* credentials set, the store holds the folders of the folder scenarios;   *)
(* one uploadFiles call of one image into no folder or into one of the     *)
(* folders, updateFile calls on the file it persists (a new name, or a     *)
(* move to another folder) and one deleteFile call of that file.           *)
(***************************************************************************)
AddressConfigs ==
    {Config(e) : e \in {v \in Environments :
        /\ v.STORAGE_PROVIDER \in {<<"local">>, <<"aws-s3">>, <<"cloudinary">>}
        /\ v.AWS_S3_BUCKET /\ v.AWS_ACCESS_KEY_ID /\ v.AWS_SECRET_ACCESS_KEY
        /\ v.CLOUDINARY_CLOUD_NAME /\ v.CLOUDINARY_API_KEY /\ v.CLOUDINARY_API_SECRET
        /\ v.GENERATE_THUMBNAILS = <<>>}}

AddressUploads ==
    {UploadRequest(<<RawImage>>, NoFileInfo, fo, DefaultValidationOptions) : fo \in UploadFolders}

AddressUpdates ==
    {[name |-> <<"notes">>, folder |-> <<>>]}
        \cup {[name |-> <<>>, folder |-> <<i>>] : i \in RequestIds}

InitAddress ==
    /\ config \in AddressConfigs
    /\ storage = NewStorageProviderService(config)
    /\ files = {}
    /\ folders = {DocsFolder, PicsFolder}
    /\ backend = {}
    /\ tmpDirs = {}
    /\ fresh = [file |-> 1, folder |-> 3, uuid |-> 1, tmp |-> 1]
    /\ up = [b \in UploadSlots |-> IdleUpload]
    /\ del = [t \in DeleteTasks |-> IdleDelete]
    /\ bulk = IdleBulk
    /\ fop = [k \in FolderOps |-> IdleFolderOp]
    /\ hist = [deletedFolders |-> {}, ops |-> 0]

NextAddress ==
    \/ CallUploadFiles(1, AddressUploads)
    \/ UploadStep(1)
    \/ CallUpdateFile({1}, AddressUpdates)
    \/ UpdateGetFileDone
    \/ UpdateFileDone
    \/ StartDelete({1})
    \/ DeleteStep(0)

SpecAddress == InitAddress /\ [][NextAddress]_vars

(***************************************************************************)
(* Properties.                                                             *)
(***************************************************************************)
Stages == <<"validate", "build", "derive", "upload", "persist">>

StageRank(stage) == CHOOSE i \in 1..Len(Stages) : Stages[i] = stage

\* the errors a stage raises
StageErrors(stage) ==
    CASE stage = "validate" -> {"size exceeds maximum", "type not allowed", "extension not allowed",
                                "width exceeds maximum", "height exceeds maximum"}
      [] stage = "build" -> {"File name contains invalid characters"}
      [] stage = "derive" -> {"Image processing failed: " \o e : e \in SharpErrors}
      [] stage = "upload" -> {"storage upload failed"}
      [] stage = "persist" -> {"saveFile failed"}

\* the stages of one file that are awaited and have not settled
InFlight(log) ==
    {e \in log : /\ e[3] = "start"
                 /\ Ev(e[1], e[2], "ok") \notin log
                 /\ Ev(e[1], e[2], "fail") \notin log}

\* C1: every File record in the store was written by a pipeline run whose
\* validation, entity building, derivative processing (images only) and
\* backend upload all completed without error before saveFile was called,
\* and whose artifact is in the backend; a file that failed an earlier stage
\* has no record.
C1_PersistedOnlyAfterPipeline ==
    \A f \in files :
        LET log == up[f.origin[1]].log
            pos == f.origin[2]
        IN  /\ Ev(pos, "validate", "ok") \in log
            /\ Ev(pos, "build", "ok") \in log
            /\ IsImageMime(f.mime) => Ev(pos, "derive", "ok") \in log
            /\ Ev(pos, "upload", "ok") \in log
            /\ \A st \in {"validate", "build", "derive", "upload"} : Ev(pos, st, "fail") \notin log
            /\ getFilePath(f) \in backend

\* C1 witness: an image was persisted by a batch that later threw
C1_Witness ==
    /\ up[1].out = "thrown"
    /\ \E f \in files : f.origin = <<1, 1>> /\ IsImageMime(f.mime)

\* C2: uploadFiles is fail-fast: once a stage of the file at position i has
\* raised, no stage of a later file is ever started and no later stage of
\* file i either, the raised error is the one pending, and the call ends by
\* throwing it.
C2_FailFast ==
    \A b \in UploadSlots : \A e \in up[b].log :
        e[3] = "fail" =>
            /\ \A e2 \in up[b].log :
                 \/ e2[1] < e[1]
                 \/ e2[1] = e[1] /\ StageRank(e2[2]) <= StageRank(e[2])
            /\ up[b].err # <<>>
            /\ up[b].err[1] \in StageErrors(e[2])
            /\ up[b].pc \in {"remove", "done"}
            /\ up[b].pc = "done" => up[b].out = "thrown"

\* C2 witness: a batch of two whose first file failed at upload has ended
C2_Witness ==
    /\ up[1].pc = "done"
    /\ Len(up[1].files) = 2
    /\ Ev(1, "upload", "fail") \in up[1].log

\* C3: no step of uploadFiles removes or changes a File record or removes a
\* backend artifact: records and artifacts of earlier files survive a later
\* failure.
C3_NoRollback == [][files \subseteq files' /\ backend \subseteq backend']_vars

\* C3 witness: the second file of a batch failed validation, the batch has
\* thrown, and the first file's record and artifact are in place
C3_Witness ==
    /\ up[1].out = "thrown"
    /\ Ev(2, "validate", "fail") \in up[1].log
    /\ \E f \in files : f.origin = <<1, 1>> /\ getFilePath(f) \in backend

\* C4 (as claimed): whenever uploadFiles has returned or thrown, the
\* temporary directory it created no longer exists.
C4_TmpDirGoneOnExit ==
    \A b \in UploadSlots : up[b].pc = "done" => up[b].tmp \notin tmpDirs

\* C4 (amended): whenever uploadFiles has returned or thrown after creating
\* its temporary directory, it has awaited the removal of that directory; the
\* directory no longer exists unless that removal itself failed, and a
\* failed removal changes nothing else: the call still returns, or throws
\* the error of the failed stage.
C4_TmpDirRemovalAttempted ==
    \A b \in UploadSlots :
        (up[b].pc = "done" /\ up[b].tmp # 0) =>
            /\ up[b].cleanup \in {"removed", "failed"}
            /\ up[b].cleanup = "removed" => up[b].tmp \notin tmpDirs
            /\ up[b].out = IF up[b].err = <<>> THEN "returned" ELSE "thrown"

\* C4 witness: a batch has thrown and its directory has been removed
C4_Witness ==
    /\ up[1].out = "thrown"
    /\ up[1].tmp # 0
    /\ up[1].cleanup = "removed"
    /\ up[1].tmp \notin tmpDirs

\* C5: within a batch the files are processed strictly one after the other:
\* the validation of file i+1 starts only after file i was persisted, and at
\* no time is more than one stage of the batch awaited.
C5_Sequential ==
    \A b \in UploadSlots :
        /\ \A e \in up[b].log :
             (e[2] = "validate" /\ e[3] = "start" /\ e[1] > 1)
                 => Ev(e[1] - 1, "persist", "ok") \in up[b].log
        /\ Cardinality(InFlight(up[b].log)) <= 1

\* C5 witness: the second file of a batch is being validated
C5_Witness ==
    /\ up[1].pc = "validate"
    /\ up[1].idx = 2

\* the bulk request has been answered with the counts
BulkAnswered == bulk.pc = "responded" /\ Len(bulk.ids) > 0

\* the calls of the bulk request that ended with the given cause
TasksWithCause(cause) == {t \in BulkTasks : del[t].cause = cause}

\* C6: a bulk delete of a non-empty id list is answered without an error,
\* with successful = the calls of deleteFile that completed, failed = the
\* calls that raised, total = the length of the list, so that successful +
\* failed = total; for three distinct stored ids of which exactly one
\* backend delete fails and nothing else does, the answer is 2, 1, 3.
C6_BulkCounts ==
    BulkAnswered =>
        /\ bulk.status = 200
        /\ bulk.total = Len(bulk.ids)
        /\ bulk.successful = Cardinality(TasksWithCause("none"))
        /\ bulk.failed = Cardinality(BulkTasks \ TasksWithCause("none"))
        /\ bulk.successful + bulk.failed = bulk.total
        /\ ( /\ Len(bulk.ids) = 3
             /\ Cardinality({bulk.ids[i] : i \in 1..3}) = 3
             /\ \A i \in 1..3 : bulk.ids[i] \in 1..NStoredFiles
             /\ Cardinality(TasksWithCause("storage delete failed")) = 1
             /\ Cardinality(TasksWithCause("none")) = 2 )
           => (bulk.successful = 2 /\ bulk.failed = 1 /\ bulk.total = 3)

\* C6 witness: three distinct stored ids, one backend delete failed, answered
C6_Witness ==
    /\ BulkAnswered
    /\ Len(bulk.ids) = 3
    /\ Cardinality({bulk.ids[i] : i \in 1..3}) = 3
    /\ \A i \in 1..3 : bulk.ids[i] \in 1..NStoredFiles
    /\ Cardinality(TasksWithCause("storage delete failed")) = 1
    /\ Cardinality(TasksWithCause("none")) = 2

\* C7: in a bulk delete a call is rejected only by a failure of its own
\* (not found, backend failure, store failure), never because a sibling
\* failed; the answer is produced only after every call has settled; and
\* every call that found its record and whose own calls succeeded has
\* completed with its record and its artifact removed.
C7_Independent ==
    /\ \A t \in BulkTasks : del[t].pc = "rejected" => del[t].cause # "none"
    /\ BulkAnswered =>
         \A t \in BulkTasks :
            /\ Settled(t)
            /\ (del[t].file # <<>> /\ del[t].cause = "none") =>
                 /\ del[t].pc = "fulfilled"
                 /\ \A f \in files : f.id # del[t].id
                 /\ getFilePath(del[t].file[1]) \notin backend

\* C7 witness: answered, with one call rejected for an unknown id and a
\* sibling completed
C7_Witness ==
    /\ BulkAnswered
    /\ \E t \in BulkTasks : del[t].cause = "File not found"
    /\ \E t \in BulkTasks : del[t].pc = "fulfilled"

\* the direct children a folder id has in a store
HasChildren(id, fs, ds) ==
    \/ \E f \in fs : f.folder = <<id>>
    \/ \E d \in ds : d.parent = <<id>>

\* what deleteFolder has done when it ends, against the store it was called on
DeleteFolderPost(d, fs, ds) ==
    LET target == {x \in d.pre.folders : x.id = d.id} IN
    target # {} =>
        IF HasChildren(d.id, d.pre.files, d.pre.folders)
        THEN d.out = "thrown" /\ ds = d.pre.folders /\ fs = d.pre.files
        ELSE d.out = "returned" /\ ds = d.pre.folders \ target /\ fs = d.pre.files

\* C8: served on its own, deleteFolder on an existing folder without a
\* direct file or subfolder child returns and removes exactly that folder's
\* record; on a folder with at least one direct child it raises and leaves
\* every Folder and File record as it was.
C8_DeleteFolder ==
    [][(fop["delete"].pc # "done" /\ fop'["delete"].pc = "done")
          => DeleteFolderPost(fop'["delete"], files', folders')]_vars

\* C8 witness: deleteFolder was refused for a folder that holds a file
C8_Witness ==
    /\ fop["delete"].pc = "done"
    /\ fop["delete"].err = "Cannot delete folder that contains files"
    /\ \E x \in folders : x.id = fop["delete"].id

\* C9: under every interleaving no File record's folder id and no Folder
\* record's parent id refers to a folder that has been deleted.
C9_NoOrphans ==
    /\ \A f \in files : f.folder # <<>> => f.folder[1] \notin hist.deletedFolders
    /\ \A d \in folders : d.parent # <<>> => d.parent[1] \notin hist.deletedFolders

\* C10: when deleteFile(id) has completed for an existing file, the file's
\* record and its primary artifact are gone, and the backend delete was
\* issued before the store delete.
C10_DeleteFileRemovesBoth ==
    \A t \in DeleteTasks :
        del[t].pc = "fulfilled" =>
            /\ \A f \in files : f.id # del[t].id
            /\ getFilePath(del[t].file[1]) \notin backend
            /\ del[t].calls = <<"storage.delete", "db.delete">>

\* C10 witness: the single-file delete of a stored file has completed
C10_Witness ==
    /\ del[0].pc = "fulfilled"
    /\ del[0].id = 1

\* C11: when the backend's delete fails during deleteFile(id), the call
\* rejects with that backend error, the step leaves every File record as it
\* was, the store delete has not been issued, and the call does nothing
\* after it.
C11_BackendDeleteFailure ==
    [][\A t \in DeleteTasks :
          /\ (del[t].pc = "storageDelete" /\ del'[t].pc = "rejected") =>
                /\ del'[t].cause = "storage delete failed"
                /\ del'[t].calls = <<"storage.delete">>
                /\ files' = files
                /\ backend' = backend
          /\ del[t].cause = "storage delete failed" => del'[t] = del[t]]_vars

\* C11 witness: the single-file delete of a stored file was rejected by the
\* backend and the file's record is still in the store
C11_Witness ==
    /\ del[0].pc = "rejected"
    /\ del[0].cause = "storage delete failed"
    /\ del[0].file[1] \in files

\* C12: when the lookup of deleteFile(id) or of updateFile(id, updates)
\* answers that the id has no File record, the call raises 'File not
\* found' at once: it has made no backend call and no store delete or
\* update, and the step changes no record and no artifact.
C12_NotFound ==
    [][/\ \A t \in DeleteTasks :
            ( /\ del[t].pc = "getFile"
              /\ del'[t].pc # "getFile"
              /\ del'[t].cause # "getFile failed"
              /\ \A f \in files : f.id # del[t].id )
            => /\ del'[t].pc = "rejected"
               /\ del'[t].cause = "File not found"
               /\ del'[t].calls = <<>>
               /\ files' = files /\ backend' = backend
       /\ ( /\ fop["update"].pc = "getFile"
            /\ fop'["update"].pc # "getFile"
            /\ \A f \in files : f.id # fop["update"].id )
          => /\ fop'["update"].pc = "done"
             /\ fop'["update"].out = "thrown"
             /\ fop'["update"].err = "File not found"
             /\ files' = files /\ backend' = backend]_vars

\* C12 witness: both a deleteFile and an updateFile of the unknown id have
\* raised 'File not found', and the store and the backend are as they were
C12_Witness ==
    /\ del[0].cause = "File not found"
    /\ fop["update"].err = "File not found"
    /\ fop["update"].id = NStoredFiles + 1
    /\ files = {StoredFile(i) : i \in 1..NStoredFiles}
    /\ backend = {getFilePath(StoredFile(i)) : i \in 1..NStoredFiles}

\* the file an uploadFiles call has in hand
FileInHand(u) == u.files[u.idx]

\* C13: a file that fails a check of validateFile (size, MIME type,
\* extension, image dimension) or the filename check raises an error and
\* goes no further: no entity is built for it, its derivative, upload and
\* persist stages are never started, it has no record, and the call throws.
C13_RejectedNeverProceeds ==
    \A b \in UploadSlots :
        LET u == up[b] IN
        ( /\ u.idx > 0
          /\ \/ validateFile(FileInHand(u), u.vopts) # <<>>
             \/ ~isValidFilename(FileInHand(u).originalname) )
        => /\ u.pc \in {"validate", "remove", "done"}
           /\ u.entity = <<>>
           /\ \A e \in u.log : e[1] = u.idx => e[2] \in {"validate", "build"}
           /\ \A f \in files : f.origin # <<b, u.idx>>
           /\ u.pc # "validate" =>
                 /\ u.err # <<>>
                 /\ u.err[1] \in StageErrors("validate") \cup StageErrors("build")
           /\ u.pc = "done" => u.out = "thrown"

\* C13 witness: a call has thrown because its image is higher than allowed,
\* and nothing was stored
C13_Witness ==
    /\ up[1].pc = "done"
    /\ up[1].out = "thrown"
    /\ up[1].err = <<"height exceeds maximum">>
    /\ files = {} /\ backend = {}

\* the constraints of validateFile, as the claim lists them
SizeViolated(f, o) == f.size > o.maxFileSize

TypeViolated(f, o) == f.mimetype \notin o.allowedTypes

ExtensionViolated(f, o) ==
    /\ o.allowedExtensions # <<>>
    /\ \A x \in o.allowedExtensions[1] : FileExtension(f.originalname) # <<x>>

WidthViolated(f, o) ==
    IsImageMime(f.mimetype) /\ f.readable /\ o.maxWidth # 0 /\ f.width > o.maxWidth

HeightViolated(f, o) ==
    IsImageMime(f.mimetype) /\ f.readable /\ o.maxHeight # 0 /\ f.height > o.maxHeight

\* the errors that name the first violated constraint in the order size,
\* MIME type, extension, dimensions; empty when no constraint is violated
FirstViolated(f, o) ==
    IF SizeViolated(f, o) THEN {"size exceeds maximum"}
    ELSE IF TypeViolated(f, o) THEN {"type not allowed"}
    ELSE IF ExtensionViolated(f, o) THEN {"extension not allowed"}
    ELSE {m \in {"width exceeds maximum"} : WidthViolated(f, o)}
             \cup {m \in {"height exceeds maximum"} : HeightViolated(f, o)}

\* C14: once validateFile has settled for a file, it has raised exactly
\* when the file violates a constraint, and the error names the first
\* violated constraint in the order size, MIME type, extension (when an
\* extension allow-list is given), image dimensions (images only, when
\* maxima are given); a file violating none is accepted.
C14_ValidationOrder ==
    \A b \in UploadSlots :
        LET u == up[b] IN
        (u.idx > 0 /\ u.pc # "validate") =>
            LET first == FirstViolated(FileInHand(u), u.vopts) IN
            IF first = {}
            THEN Ev(u.idx, "validate", "ok") \in u.log
            ELSE /\ Ev(u.idx, "validate", "fail") \in u.log
                 /\ u.err # <<>>
                 /\ u.err[1] \in first

\* C14 witness: a file that is too large, of a type that is not allowed and
\* with an extension that is not allowed was refused for its size
C14_Witness ==
    /\ up[1].pc = "done"
    /\ up[1].idx = 1
    /\ SizeViolated(FileInHand(up[1]), up[1].vopts)
    /\ TypeViolated(FileInHand(up[1]), up[1].vopts)
    /\ ExtensionViolated(FileInHand(up[1]), up[1].vopts)
    /\ up[1].err = <<"size exceeds maximum">>

\* the characters the claim lists: < > : " / \ | ? * and the control
\* characters U+0000..U+001F
ReservedCharacters == {"<", ">", ":", "\"", "/", "\\", "|", "?", "*", "CTRL"}

\* the names the claim says are rejected
ClaimedRejected(name) ==
    \/ name = <<>>
    \/ StrLen(name) > 255
    \/ \E i \in 1..Len(name) : name[i] \in ReservedCharacters
    \/ /\ Len(name) = 1
       /\ LowerTok(name[1]) \in {"con", "prn", "aux", "nul", "com0", "com1", "lpt9"}
    \/ name = <<".">>
    \/ name = <<".", ".">>

C16_NamesSanitized ==
    \A f \in files :
        /\ StrLen(f.name) <= 255
        /\ \A i \in 1..Len(f.name) : f.name[i] \notin ReservedCharacters

\* the hashes of the files a call of deleteFile has deleted
DeletedHashes == {del[t].file[1].hash : t \in {x \in DeleteTasks : del[x].pc = "fulfilled"}}

\* C17: any two File records have different hashes, also when their base
\* filenames are equal; the hash of the entity an upload is building is the
\* hash of no record but its own and of no entity of another call; and no
\* record or entity carries the hash of a deleted file.
C17_HashUnique ==
    /\ \A f1, f2 \in files : f1.id # f2.id => f1.hash # f2.hash
    /\ \A b \in UploadSlots :
         up[b].entity # <<>> =>
            /\ \A f \in files : f.hash = up[b].entity[1].hash => f.origin = <<b, up[b].idx>>
            /\ \A c \in UploadSlots \ {b} :
                  up[c].entity # <<>> => up[c].entity[1].hash # up[b].entity[1].hash
            /\ up[b].entity[1].hash \notin DeletedHashes
    /\ \A f \in files : f.hash \notin DeletedHashes

\* C17 witness: a stored file was deleted and a batch has then persisted
\* two files with the deleted file's base filename
C17_Witness ==
    /\ del[0].pc = "fulfilled"
    /\ \E f1, f2 \in files :
         /\ f1.origin = <<2, 1>> /\ f2.origin = <<2, 2>>
         /\ f1.hash.basename = del[0].file[1].hash.basename
         /\ f2.hash.basename = f1.hash.basename

\* C18: when getFolderPath settles for a file uploaded without a folder id,
\* the file's folderPath is "/"; when it settles after a lookup that found
\* the folder, the folderPath is that folder's stored path, which for a
\* folder B whose parent A exists is A.path + "/" + B.name.
C18_FolderPath ==
    [][\A b \in UploadSlots :
          (up[b].pc = "getFolderPath" /\ up'[b].pc # "getFolderPath") =>
             LET folderId == up[b].entity[1].folder
                 e == up'[b].entity[1]
             IN  /\ folderId = <<>> => e.folderPath = <<"/">>
                 /\ up'[b].lookup = "ok" =>
                       \E d \in folders :
                          /\ d.id = folderId[1]
                          /\ e.folderPath = d.path
                          /\ \A a \in folders :
                                d.parent = <<a.id>> => e.folderPath = a.path \o <<"/", d.name>>]_vars

\* C18 witness: a file uploaded into pics, the subfolder of docs, was
\* persisted with the folder path /docs/pics
C18_Witness ==
    /\ up[2].out = "returned"
    /\ up[2].lookup = "ok"
    /\ \E f \in files :
         /\ f.origin = <<2, 1>>
         /\ f.folder = <<PicsFolder.id>>
         /\ f.folderPath = DocsFolder.path \o <<"/", PicsFolder.name>>

\* C19: when the folder lookup for a supplied folder id throws or finds no
\* folder, the file's folderPath is "/" and its pipeline goes on: the
\* entity is built, no error of the lookup is raised, and the record the
\* file gets has folderPath "/".
C19_LookupNonFatal ==
    \A b \in UploadSlots :
        LET u == up[b] IN
        u.lookup \in {"failed", "missing"} =>
            /\ u.entity # <<>>
            /\ u.entity[1].folderPath = <<"/">>
            /\ Ev(u.idx, "build", "fail") \notin u.log
            /\ u.pc \in {"getMetadata", "processImage", "upload", "saveFile", "remove", "done"}
            /\ u.err # <<>> =>
                  u.err[1] \in StageErrors("derive") \cup StageErrors("upload")
                                  \cup StageErrors("persist")
            /\ \A f \in files : f.origin = <<b, u.idx>> => f.folderPath = <<"/">>

\* C19 witness: the lookup threw, and the call has returned with the file
\* persisted under "/" with its folder id
C19_Witness ==
    /\ up[2].out = "returned"
    /\ up[2].lookup = "failed"
    /\ \E f \in files :
         f.origin = <<2, 1>> /\ f.folder # <<>> /\ f.folderPath = <<"/">>

\* C20: every Folder record without a parent has the path "/" + name, and
\* every Folder record with a parent id has the path of that parent folder
\* + "/" + name.
C20_FolderPaths ==
    \A d \in folders :
        IF d.parent = <<>>
        THEN d.path = <<"/", d.name>>
        ELSE \E a \in folders : a.id = d.parent[1] /\ d.path = a.path \o <<"/", d.name>>

\* the variant descriptors in the formats of a record
Variants(f) == IF f.formats = <<>> THEN {} ELSE f.formats[1]

\* the artifact a variant descriptor names: the record's folder, the
\* descriptor's hash and extension
VariantArtifact(f, d) ==
    getFilePath([folderPath |-> f.folderPath, hash |-> d.hash, ext |-> d.ext])

\* C21: for every variant descriptor (thumbnail, w<breakpoint>) in the
\* formats of a persisted File record, the variant's bytes are in the storage
\* backend: they were uploaded before the record was persisted.  (No step of
\* the scenario removes an artifact.)
C21_VariantsUploaded ==
    \A f \in files : \A d \in Variants(f) : VariantArtifact(f, d) \in backend

\* the breakpoint list processImage hands to generateResponsiveImages for a call
BreakpointList(u) ==
    IF u.popts.breakpoints # <<>> THEN u.popts.breakpoints[1] ELSE RESPONSIVE_BREAKPOINTS

\* the elements of a sequence
Range(s) == {s[i] : i \in 1..Len(s)}

\* C22: generateResponsiveImages never raises because a breakpoint failed:
\* every breakpoint of the list is attempted, in list order; the returned map
\* has exactly the keys w<breakpoint> of the resizes that did not fail
\* (possibly none); and processImage does not fail on account of it: when
\* nothing else failed the file goes on to the upload.
C22_BreakpointFailuresTolerated ==
    \A b \in UploadSlots :
        LET u == up[b] IN
        (u.processed # <<>> /\ u.processed[1].responsive # <<>>) =>
            LET p == u.processed[1]
                r == p.responsive[1]
            IN  /\ ~r.raised
                /\ r.attempted = BreakpointList(u)
                /\ {i.key : i \in r.responsive} =
                       {"w" \o ToString(w) : w \in Range(r.attempted) \ Range(r.warned)}
                /\ p.failedAt \in {"none", "optimizeImage"}
                /\ p.failedAt = "none" =>
                       /\ p.err = <<>>
                       /\ Ev(u.idx, "derive", "ok") \in u.log
                       /\ Ev(u.idx, "upload", "start") \in u.log

\* C22 witness: two of the four breakpoints failed, and the file was
\* persisted with the variants of the other two
C22_Witness ==
    /\ up[1].processed # <<>>
    /\ up[1].processed[1].responsive # <<>>
    /\ up[1].processed[1].responsive[1].warned = <<768, 1920>>
    /\ \E f \in files :
         /\ f.origin = <<1, 1>>
         /\ {d.key : d \in Variants(f)} = {"thumbnail", "w480", "w1024"}

\* C23: with enlargement disallowed, generateResponsiveImages skips every
\* breakpoint that is not smaller than the source image's width: the returned
\* map has no entry for such a breakpoint (for the breakpoints 480, 768, 1024,
\* 1920 and a source 300 pixels wide: no entry at all), and the call does not
\* raise.
C23_NoEntryAtOrAboveSourceWidth ==
    \A b \in UploadSlots :
        LET u == up[b] IN
        (u.processed # <<>> /\ u.processed[1].responsive # <<>>) =>
            LET r == u.processed[1].responsive[1] IN
            /\ ~r.raised
            /\ \A w \in Range(r.attempted) :
                 w >= u.files[u.idx].width =>
                     \A i \in r.responsive : i.key # "w" \o ToString(w)

\* C24: a hard failure inside processImage (the thumbnail or the
\* optimization fails) raises a processing error that wraps the underlying
\* failure, and aborts the file's pipeline: the file is neither uploaded nor
\* persisted and the call ends by throwing that error.  processImage raises
\* for no other reason: failures of breakpoints alone never make it raise.
C24_HardFailureAborts ==
    \A b \in UploadSlots :
        LET u == up[b] IN
        u.processed # <<>> =>
            LET p == u.processed[1] IN
            /\ p.err # <<>> <=> p.failedAt \in {"generateThumbnail", "optimizeImage"}
            /\ p.failedAt = "generateThumbnail" =>
                   p.err = <<"Image processing failed: resize failed">>
            /\ p.failedAt = "optimizeImage" =>
                   p.err = <<"Image processing failed: encode failed">>
            /\ p.err # <<>> =>
                   /\ u.err = p.err
                   /\ u.pc \in {"remove", "done"}
                   /\ u.pc = "done" => u.out = "thrown"
                   /\ Ev(u.idx, "derive", "fail") \in u.log
                   /\ Ev(u.idx, "upload", "start") \notin u.log
                   /\ getFilePath(u.entity[1]) \notin backend
                   /\ \A f \in files : f.origin # <<b, u.idx>>

\* C24 witness: the optimization failed after one breakpoint had failed, and
\* the call has thrown
C24_Witness ==
    /\ up[1].pc = "done"
    /\ up[1].out = "thrown"
    /\ up[1].processed # <<>>
    /\ up[1].processed[1].failedAt = "optimizeImage"
    /\ up[1].processed[1].responsive # <<>>
    /\ up[1].processed[1].responsive[1].warned = <<480>>
    /\ files = {}
    /\ backend = {}

\* C25: a failure of the metadata extraction while an image entity is built
\* is caught: no call ends with the metadata error, the only failure of the
\* build stage is the filename check, the width and height of the entity are
\* those of the image or both unset (unset for an image sharp cannot read),
\* and the file is handed on to processImage; what is persisted is the
\* entity as built.
C25_MetadataFailureNonFatal ==
    /\ \A b \in UploadSlots :
         LET u == up[b] IN
         /\ u.err # <<"Failed to extract image metadata">>
         /\ \A e \in u.log :
              (e[2] = "build" /\ e[3] = "fail")
                  => u.err = <<"File name contains invalid characters">>
         /\ (u.entity # <<>> /\ IsImageMime(u.entity[1].mime)
                  /\ Ev(u.idx, "build", "ok") \in u.log) =>
                LET file == u.files[u.idx]
                    entity == u.entity[1]
                IN  /\ \/ entity.width = 0 /\ entity.height = 0
                       \/ entity.width = file.width /\ entity.height = file.height
                    /\ ~file.readable => entity.width = 0 /\ entity.height = 0
                    /\ Ev(u.idx, "derive", "start") \in u.log
    /\ \A f \in files :
         LET file == up[f.origin[1]].files[f.origin[2]] IN
         \/ f.width = 0 /\ f.height = 0
         \/ f.width = file.width /\ f.height = file.height

\* C25 witness: the image sharp cannot read was derived, uploaded and
\* persisted without width and height
C25_Witness ==
    \E f \in files :
        /\ f.origin = <<1, 1>>
        /\ ~up[1].files[1].readable
        /\ f.width = 0 /\ f.height = 0
        /\ Variants(f) # {}
        /\ getFilePath(f) \in backend

\* the files the claim says processImage derives variants for: the MIME type
\* starts with "image/" and the format, the extension without its dot, is
\* one of the seven
ClaimedProcessable(entity) ==
    /\ IsImageMime(entity.mime)
    /\ \E x \in {"jpeg", "png", "webp", "tiff", "svg", "gif", "avif"} : entity.ext = <<".", x>>

\* C26: processImage derives variants exactly for image files whose format
\* is jpeg, png, webp, tiff, svg, gif or avif: for such a file it fails or
\* returns a formats map, and the entity that goes to the backend carries
\* one; every other file passes through untouched: processImage returns
\* nothing for it, and the entity has no formats and the size of the upload.
C26_ProcessedExactly ==
    \A b \in UploadSlots :
        LET u == up[b] IN
        /\ u.processed # <<>> =>
             LET p == u.processed[1] IN
             /\ ClaimedProcessable(u.entity[1]) <=> (p.err # <<>> \/ p.formats # <<>>)
             /\ ~ClaimedProcessable(u.entity[1]) =>
                    /\ p.formats = <<>> /\ p.size = <<>> /\ p.err = <<>>
                    /\ p.responsive = <<>> /\ p.optimized = <<>>
        /\ (u.entity # <<>> /\ Ev(u.idx, "upload", "start") \in u.log) =>
             LET entity == u.entity[1] IN
             /\ ClaimedProcessable(entity) <=> entity.formats # <<>>
             /\ ~ClaimedProcessable(entity) => entity.size = u.files[u.idx].size

\* C26 witness: an svg image was persisted with variants
C26_Witness ==
    \E f \in files :
        /\ f.ext = <<".", "svg">>
        /\ "thumbnail" \in {d.key : d \in Variants(f)}

\* C27: the size of a persisted File record is never larger than the size of
\* the raw upload.  It differs from it only when optimizeImage returned a
\* strictly smaller byte count, which it then is; it is the raw size when
\* the format has no optimizer (optimizeImage is not called) or the
\* optimization did not reduce the size.  The same holds of the entity from
\* the moment processImage has settled.
C27_SizeNeverGrows ==
    /\ \A f \in files :
         LET raw == up[f.origin[1]].files[f.origin[2]] IN
         /\ f.size <= raw.size
         /\ f.size # raw.size =>
              \E x \in {"jpeg", "png", "webp", "tiff", "avif"} : f.ext = <<".", x>>
    /\ \A b \in UploadSlots :
         LET u == up[b] IN
         (u.processed # <<>> /\ u.processed[1].err = <<>>) =>
             LET p == u.processed[1]
                 raw == u.files[u.idx]
                 entity == u.entity[1]
             IN  /\ p.optimized # <<>> <=>
                        \E x \in {"jpeg", "png", "webp", "tiff", "avif"} :
                            entity.ext = <<".", x>>
                 /\ (p.optimized # <<>> /\ p.optimized[1] < raw.size)
                        => entity.size = p.optimized[1]
                 /\ (p.optimized = <<>> \/ p.optimized[1] >= raw.size)
                        => entity.size = raw.size
                 /\ \A f \in files : f.origin = <<b, u.idx>> => f.size = entity.size

\* C27 witness: the optimization reduced an image of 2048 bytes to 512, and
\* the record says 512
C27_Witness ==
    \E f \in files :
        /\ f.origin = <<1, 1>>
        /\ up[1].processed # <<>>
        /\ up[1].processed[1].optimized = <<512>>
        /\ f.size = 512
        /\ up[1].files[1].size = 2048

\* the provider that writes artifacts of the shape of k
ProviderOfKey(k) ==
    CASE "Key" \in DOMAIN k -> "aws-s3"
      [] "public_id" \in DOMAIN k -> "cloudinary"
      [] OTHER -> "local"

\* C28: the storage service selects exactly one backend, from the
\* configuration, when it is constructed, and keeps it: no step (an upload, a
\* delete, checkFileSize, getSignedUrl or any other) changes the selected
\* backend, and every artifact written or removed and every checkFileSize
\* and getSignedUrl call went to that backend.
C28_OneBackend ==
    [][/\ storage.provider # "none" => storage'.provider = storage.provider
       /\ storage'.provider # "none" =>
            /\ storage'.provider \in {"local", "aws-s3", "cloudinary"}
            /\ storage'.provider = createProvider(config).provider
            /\ \A k \in backend' \cup backend : ProviderOfKey(k) = storage'.provider
            /\ \A c \in storage'.calls : c.provider = storage'.provider]_vars

\* C28 witness: under the S3 backend a file was uploaded and deleted again,
\* and checkFileSize and getSignedUrl were called
C28_Witness ==
    /\ storage.provider = "aws-s3"
    /\ up[1].pc = "done"
    /\ up[1].out = "returned"
    /\ del[0].pc = "fulfilled"
    /\ {c.op : c \in storage.calls} = {"checkFileSize", "getSignedUrl"}

\* C29: the provider field of every persisted File record is the identifier
\* of the storage backend that was used to upload that file, the one the
\* storage service selected and whose artifact the file has, whatever the
\* value of the storage provider setting.
C29_ProviderIsBackendUsed ==
    \A f \in files :
        /\ f.provider = storage.provider
        /\ \A k \in backend :
             k = StorageKey(ProviderOfKey(k), f) => f.provider = ProviderOfKey(k)

\* the configured backend is the remote object store or the managed media
\* service and one of its three credentials is not set
MissingCredential ==
    \/ /\ config.STORAGE_PROVIDER = "aws-s3"
       /\ \E c \in {config.AWS_S3_BUCKET, config.AWS_ACCESS_KEY_ID,
                    config.AWS_SECRET_ACCESS_KEY} : ~c
    \/ /\ config.STORAGE_PROVIDER = "cloudinary"
       /\ \E c \in {config.CLOUDINARY_CLOUD_NAME, config.CLOUDINARY_API_KEY,
                    config.CLOUDINARY_API_SECRET} : ~c

\* C30: when the configured backend is the remote object store or the
\* managed media service and one of its required credentials is missing,
\* constructing the storage service raises a configuration error and creates
\* no backend, and no upload, delete or other storage call is ever served:
\* no call is in flight or has ended, nothing is stored and nothing recorded.
\* With the credentials complete, or under any other setting, construction
\* raises nothing.
C30_MissingCredentialsFatal ==
    /\ MissingCredential =>
         /\ storage.provider = "none"
         /\ storage # NoStorage =>
              storage.err = IF config.STORAGE_PROVIDER = "aws-s3"
                            THEN <<"AWS S3 configuration is incomplete">>
                            ELSE <<"Cloudinary configuration is incomplete">>
         /\ \A b \in UploadSlots : up[b] = IdleUpload
         /\ \A t \in DeleteTasks : del[t] = IdleDelete
         /\ files = {} /\ backend = {} /\ tmpDirs = {}
         /\ storage.calls = {}
    /\ ~MissingCredential => storage.err = <<>>

\* C30 witness: Cloudinary is configured without its API secret and the
\* construction has failed
C30_Witness ==
    /\ config.STORAGE_PROVIDER = "cloudinary"
    /\ config.CLOUDINARY_CLOUD_NAME /\ config.CLOUDINARY_API_KEY
    /\ ~config.CLOUDINARY_API_SECRET
    /\ storage.err = <<"Cloudinary configuration is incomplete">>
    /\ storage.provider = "none"

\* a delete task that has read its record and called storageProvider.delete
Addressing(t) == del[t].file # <<>>

\* C31: under each of the three backends, the place deleteFile addresses
\* for a file that uploadFiles persisted is the place the upload wrote
\* (the one the provider reported), whatever updateFile calls came between:
\* for every record, and for every record a delete task has read, the
\* address computed from (folderPath, hash, ext) is the place written
C31_DeleteAddressesUploadLocation ==
    /\ \A f \in files :
         f.provider_metadata # <<>> =>
            StorageKey(storage.provider, f) = f.provider_metadata[1]
    /\ \A t \in DeleteTasks :
         Addressing(t) /\ del[t].file[1].provider_metadata # <<>> =>
            StorageKey(storage.provider, del[t].file[1]) = del[t].file[1].provider_metadata[1]

\* C32: the object key of the remote object store, as used by upload and
\* by delete, does not begin with a slash, for every folderPath the
\* pipeline produces
C32_KeyHasNoLeadingSlash ==
    storage.provider = "aws-s3" =>
        /\ \A k \in backend : k.Key[1] # "/"
        /\ \A t \in DeleteTasks :
             Addressing(t) => getS3Key(del[t].file[1]).Key[1] # "/"

\* the kind of an error that leaves uploadFiles or deleteFile: its class,
\* error.constructor.name.  The services declare no error class and set
\* no code or status on an error: every throw is `throw new Error(message)`,
\* and a rejection of the local backend (fs-extra rejects with a Node.js
\* system error, an Error) is logged and rethrown as it is
ErrorKind(message) == "Error"

\* the kinds of the errors raised for a size, type, extension, dimension
\* or filename violation
ValidationErrorKinds == {ErrorKind(m) : m \in StageErrors("validate") \cup StageErrors("build")}

\* C33: the error that reaches the caller of uploadFiles or deleteFile for
\* a failed backend upload or delete has a kind that no error raised for a
\* size, type, extension, dimension or filename violation has
C33_StorageFailuresDistinguishable ==
    /\ \A b \in UploadSlots :
         up[b].err # <<>> /\ up[b].err[1] \in StageErrors("upload") =>
            ErrorKind(up[b].err[1]) \notin ValidationErrorKinds
    /\ \A t \in DeleteTasks :
         del[t].pc = "rejected" /\ del[t].cause = "storage delete failed" =>
            ErrorKind(del[t].cause) \notin ValidationErrorKinds

\* C34: a failed stage is not retried and its error is not replaced: while
\* the backend upload or the save of a file is awaited, no earlier call of
\* that stage for that file has settled (each is invoked at most once per
\* file); and when validation, backend upload or persistence of a file has
\* failed, the error the call holds and throws is the one that stage raised
C34_NoRetryErrorPropagated ==
    \A b \in UploadSlots :
        LET u == up[b] IN
        /\ u.pc = "upload" =>
              {Ev(u.idx, "upload", "ok"), Ev(u.idx, "upload", "fail")} \cap u.log = {}
        /\ u.pc = "saveFile" =>
              {Ev(u.idx, "persist", "ok"), Ev(u.idx, "persist", "fail")} \cap u.log = {}
        /\ \A i \in 1..Len(u.files) :
             /\ Ev(i, "validate", "fail") \in u.log => u.err = validateFile(u.files[i], u.vopts)
             /\ Ev(i, "upload", "fail") \in u.log => u.err = <<"storage upload failed">>
             /\ Ev(i, "persist", "fail") \in u.log => u.err = <<"saveFile failed">>
             /\ (\E s \in {"validate", "upload", "persist"} : Ev(i, s, "fail") \in u.log)
                   /\ u.pc = "done" => u.out = "thrown"

\* C34 witness: the save of the second file of a batch failed after its
\* upload, and the call has thrown the store's error
C34_Witness ==
    /\ up[1].pc = "done"
    /\ up[1].out = "thrown"
    /\ Ev(2, "upload", "ok") \in up[1].log
    /\ Ev(2, "persist", "fail") \in up[1].log
    /\ up[1].err = <<"saveFile failed">>

\* an uploadFiles call that has created its working directory and has not
\* returned or thrown
Running(b) == up[b].pc \notin {"idle", "mkdtemp", "done"}

\* C35: the working directory of a running uploadFiles call is its own:
\* no other running call has the same directory, and it exists as long as
\* the call runs (the cleanup of another call never removes it)
C35_TmpDirExclusive ==
    \A b \in UploadSlots :
        Running(b) =>
            /\ up[b].tmp \in tmpDirs
            /\ \A b2 \in UploadSlots \ {b} : Running(b2) => up[b2].tmp # up[b].tmp

\* C35 witness: one call has ended and removed its directory while the
\* other call, started before that, is still in its loop
C35_Witness ==
    /\ up[1].pc = "done"
    /\ up[1].cleanup = "removed"
    /\ Running(2)
    /\ up[2].tmp < up[1].tmp
    /\ up[2].tmp \in tmpDirs

\* an uploadFiles call has been made
Started(b) == up[b].pc # "idle"

\* the call has returned or thrown, and the removal of the working
\* directory it had created has been attempted
Ended(b) ==
    /\ up[b].pc = "done"
    /\ up[b].out \in {"returned", "thrown"}
    /\ up[b].tmp # 0 => up[b].cleanup \in {"removed", "failed"}

\* C36: every uploadFiles call terminates: when every awaited step settles,
\* a call that was started eventually has returned or thrown with its
\* cleanup step run, for every batch length and failure pattern
C36_UploadTerminates == \A b \in UploadSlots : Started(b) ~> Ended(b)

\* C36 witness: a batch of two files has ended by throwing at its second
\* file after its first file was persisted
C36_Witness ==
    /\ Ended(1)
    /\ up[1].out = "thrown"
    /\ up[1].idx = 2
    /\ Len(up[1].result) = 1

\* C37: deleteFile is all-or-nothing: when deleteFile(id) has raised for a
\* file it had found, the file's record still exists and its primary
\* artifact is still in the backend
C37_DeleteAllOrNothing ==
    \A t \in DeleteTasks :
        del[t].pc = "rejected" /\ del[t].file # <<>> =>
            /\ \E f \in files : f.id = del[t].id
            /\ \A f \in files :
                 f.id = del[t].id => StorageKey(storage.provider, f) \in backend

\* the calls of the bulk request that were given the id
TasksFor(id) == {t \in BulkTasks : del[t].id = id}

\* the backend and the store served every call for the id: a call for it
\* failed, if at all, only because the record was no longer there
ServedWithoutOutage(id) ==
    \A t \in TasksFor(id) :
        del[t].cause \in {"none", "File not found", "Record to delete does not exist"}

\* C38: a bulk delete whose list names a stored file more than once, served
\* without an outage and with no other request deleting that file, is
\* answered under every interleaving with exactly one call for that id
\* counted successful and the others failed; the record is gone, removed by
\* that one call; and successful + failed is the length of the list
C38_DuplicateIds ==
    \A id \in 1..NStoredFiles :
        ( /\ BulkAnswered
          /\ Cardinality(TasksFor(id)) > 1
          /\ ServedWithoutOutage(id)
          /\ del[0].id # id )
        => /\ Cardinality({t \in TasksFor(id) : del[t].pc = "fulfilled"}) = 1
           /\ \A t \in TasksFor(id) : del[t].pc \in {"fulfilled", "rejected"}
           /\ \A f \in files : f.id # id
           /\ bulk.successful = Cardinality({t \in BulkTasks : del[t].pc = "fulfilled"})
           /\ bulk.failed = Cardinality({t \in BulkTasks : del[t].pc = "rejected"})
           /\ bulk.successful + bulk.failed = Len(bulk.ids)

\* C38 witness: the list names file 2 three times; all three calls read the
\* record and deleted the artifact, one deleted the record and the other
\* two found it gone; answered 1 successful, 2 failed
C38_Witness ==
    /\ BulkAnswered
    /\ bulk.ids = <<2, 2, 2>>
    /\ Cardinality({t \in BulkTasks : del[t].cause = "Record to delete does not exist"}) = 2
    /\ bulk.successful = 1
    /\ bulk.failed = 2

\* the columns of a File record that updateFile may set
UpdatableColumns == {"name", "folder"}

\* record g is record f with at most its updatable columns changed
SameButUpdatable(f, g) ==
    /\ DOMAIN g = DOMAIN f
    /\ \A c \in DOMAIN f \ UpdatableColumns : g[c] = f[c]

\* C39: a step of updateFile changes nothing but the name and the folder id
\* of the record it addresses: that record's id, hash, ext, mime, size,
\* folderPath, url, provider, provider metadata, dimensions and formats,
\* every other File record, every Folder record and the backend are as
\* they were
C39_UpdateFileFrame ==
    [][fop'["update"] # fop["update"] =>
          /\ folders' = folders
          /\ backend' = backend
          /\ \/ files' = files
             \/ \E f \in files, g \in files' :
                  /\ f.id = fop["update"].id
                  /\ files' = (files \ {f}) \cup {g}
                  /\ SameButUpdatable(f, g)]_vars

\* C39 witness: under the remote object store the record uploaded to the
\* root folder was moved to folder 1 by updateFile; its artifact is where
\* it was
C39_Witness ==
    /\ storage.provider = "aws-s3"
    /\ fop["update"].out = "returned"
    /\ \E f \in files :
         /\ f.id = 1
         /\ f.folder = <<1>>
         /\ f.folderPath = <<"/">>
         /\ f.provider_metadata[1] \in backend

\* the byte length of the primary artifact a provider stored for the record
\* that call b persisted at position pos: every provider's upload copies,
\* streams or sends file.filepath, the file as received, whose length is the
\* raw file's size
UploadedBytes(f) == up[f.origin[1]].files[f.origin[2]].size

\* C40: the size of every File record that uploadFiles persisted is the
\* byte length of the primary artifact that was uploaded to the backend
C40_SizeIsUploadedBytes ==
    \A f \in files : f.origin[1] \in UploadSlots => f.size = UploadedBytes(f)

====
